---- MODULE Spec2Model ----
(***************************************************************************)
(* A model of the quote generator's pricing engine (models/calculation.py) *)
(* and of the project state the scope view edits (models/project.py,       *)
(* views/scope_view.py, views/dialogs/item_options_dialog.py).             *)
(*                                                                         *)
(* Python values are tagged records: a dictionary key that is missing is   *)
(* Absent, the value None is PyNone, a number is PyNum(n), a string is     *)
(* PyStr(s).  A string is a sequence of chunks; every chunk is a fixed     *)
(* piece of text, no chunk is a prefix of another, so a sequence of chunks *)
(* stands for exactly one Python string.  Amounts are integers: the code   *)
(* computes with floats, which are exact on the small integers used here.  *)
(***************************************************************************)
EXTENDS Integers, Sequences, FiniteSets, TLC

VARIABLES
    pc,         \* position of the operation under test, "project" in a session
    arg,        \* the record handed to the Calculator operation
    ret,        \* what the operation returned (or that it raised)
    rooms,      \* Project.rooms
    line_items, \* Project.line_items
    rate_card,  \* RateCard.items
    scope_index,\* current entry of ScopeView.scope_room_selector, 0 for none
    ops         \* handlers run so far in the session

vars == <<pc, arg, ret, rooms, line_items, rate_card, scope_index, ops>>

\* the project, empty and untouched while a Calculator operation is under test
project == <<rooms, line_items, rate_card, scope_index, ops>>
NoProject ==
    /\ rooms = <<>> /\ line_items = <<>> /\ rate_card = <<>> /\ scope_index = 0
    /\ ops = 0

(***************************************************************************)
(* Bounds of the model.                                                    *)
(***************************************************************************)
MaxNum == 2         \* numeric fields range over 0..MaxNum
MaxLegacyLen == 3   \* chunks in a legacy add_ons string
MaxOptLen == 3      \* chunks in a rate card's material_options string
MaxPriceLen == 3    \* chunks in a rate card's material_prices string

(***************************************************************************)
(* Python values.                                                          *)
(***************************************************************************)
Absent == [k |-> "absent"]
PyNone == [k |-> "none"]
PyNum(n) == [k |-> "num", n |-> n]
PyStr(s) == [k |-> "str", s |-> s]
PyBool(b) == [k |-> "bool", b |-> b]

\* the empty dict of prices
NoPrices == [n \in {} |-> 0]

\* The outcome of a call: a returned number, or an exception.
Ok(v) == [ok |-> TRUE, v |-> v]
Raise == [ok |-> FALSE, v |-> 0]

\* All sequences over alphabet A of length at most n.
StrSet(A, n) == UNION {[1..m -> A] : m \in 0..n}

(***************************************************************************)
(* Python string operations, on chunk sequences.                           *)
(***************************************************************************)
IsSpace(c) == c = " "

RECURSIVE lstrip(_)
lstrip(s) == IF s # <<>> /\ IsSpace(Head(s)) THEN lstrip(Tail(s)) ELSE s

RECURSIVE rstrip(_)
rstrip(s) ==
    IF s # <<>> /\ IsSpace(s[Len(s)]) THEN rstrip(SubSeq(s, 1, Len(s) - 1)) ELSE s

\* the string with its blanks left in place
untrimmed(s) == s

\* str.strip()
strip(s) == rstrip(lstrip(s))

\* the lower-case form of one chunk
LowerChunk(c) ==
    CASE c = "Lights" -> "lights"
      [] c = "LIGHTS" -> "lights"
      [] c = "Profile Door" -> "profile door"
      [] c = "Laminate" -> "laminate"
      [] c = "Veneer" -> "veneer"
      [] c = "VENEER" -> "veneer"
      [] c = "PU" -> "pu"
      [] c = "Acrylic" -> "acrylic"
      [] c = "Premium" -> "premium"
      [] c = "Texture" -> "texture"
      [] c = "Oak" -> "oak"
      [] c = "None" -> "none"
      [] c = "NONE" -> "none"
      [] OTHER -> c

\* the string in the letter case it was written in
as_written(s) == s

\* str.lower()
lower(s) == [i \in 1..Len(s) |-> LowerChunk(s[i])]

\* str.split(sep): the pieces between the separators, empty pieces included
RECURSIVE split(_, _)
split(s, sep) ==
    IF \E i \in 1..Len(s) : s[i] = sep
    THEN LET i == CHOOSE i \in 1..Len(s) :
                     s[i] = sep /\ \A j \in 1..(i - 1) : s[j] # sep
         IN  <<SubSeq(s, 1, i - 1)>> \o split(SubSeq(s, i + 1, Len(s)), sep)
    ELSE <<s>>

IsDigit(c) == c \in {"0", "1", "2", "3", "5"}

DigitVal(c) ==
    CASE c = "0" -> 0 [] c = "1" -> 1 [] c = "2" -> 2 [] c = "3" -> 3 [] c = "5" -> 5

RECURSIVE DigitsValue(_)
DigitsValue(s) ==
    IF s = <<>> THEN 0
    ELSE DigitsValue(SubSeq(s, 1, Len(s) - 1)) * 10 + DigitVal(s[Len(s)])

\* float(s) of a string: surrounding blanks are skipped, the rest must be a
\* number (here: one or more digits); anything else raises ValueError.
float(s) ==
    LET t == strip(s)
    IN  IF t # <<>> /\ \A i \in 1..Len(t) : IsDigit(t[i])
        THEN Ok(DigitsValue(t))
        ELSE Raise

\* float(x or 0) for the value x of item.get(field, 0)
float_or_zero(x) ==
    CASE x.k = "absent" -> Ok(0)
      [] x.k = "none" -> Ok(0)
      [] x.k = "num" -> Ok(x.n)
      [] x.k = "bool" -> Ok(IF x.b THEN 1 ELSE 0)
      [] x.k = "str" -> IF x.s = <<>> THEN Ok(0) ELSE float(x.s)

\* Python truthiness of a value
Truthy(x) ==
    CASE x.k = "absent" -> FALSE
      [] x.k = "none" -> FALSE
      [] x.k = "num" -> x.n # 0
      [] x.k = "bool" -> x.b
      [] x.k = "str" -> x.s # <<>>
      [] OTHER -> TRUE

\* the sum of f[x] over x in S
RECURSIVE SumOver(_, _)
SumOver(f, S) ==
    IF S = {} THEN 0
    ELSE LET x == CHOOSE x \in S : TRUE IN f[x] + SumOver(f, S \ {x})

\* the sum of the elements of a sequence of numbers
RECURSIVE SumSeq(_)
SumSeq(s) == IF s = <<>> THEN 0 ELSE Head(s) + SumSeq(Tail(s))

(***************************************************************************)
(* Calculator.calculate_item_amount                                        *)
(***************************************************************************)
SFT == PyStr(<<"SFT">>)
RFT == PyStr(<<"RFT">>)
NOS == PyStr(<<"NOS">>)

ProfileDoorRate == 150
LightsRate == 250

\* uom = item.get("uom", "NOS")
item_uom(item) == IF item.uom.k = "absent" THEN NOS ELSE item.uom

\* base_amount with the height also applied to running feet
base_amount_rft_area(uom, length, height, quantity, rate) ==
    IF uom = SFT THEN (length * height) * quantity * rate
    ELSE IF uom = RFT THEN length * height * quantity * rate
    ELSE quantity * rate

\* base_amount with an unrecognised unit priced by its length
base_amount_unknown_linear(uom, length, height, quantity, rate) ==
    IF uom = SFT THEN (length * height) * quantity * rate
    ELSE IF uom = RFT THEN length * quantity * rate
    ELSE IF uom = NOS THEN quantity * rate
    ELSE length * quantity * rate

\* lines 18-31: the base amount by unit of measure
base_amount(uom, length, height, quantity, rate) ==
    IF uom = SFT THEN (length * height) * quantity * rate
    ELSE IF uom = RFT THEN length * quantity * rate
    ELSE IF uom = NOS THEN quantity * rate
    ELSE quantity * rate

\* material_scaled with the surcharge as a flat fee per piece
material_scaled_flat(p, uom, length, height, quantity) == p * quantity

\* lines 44-49: the surcharge of a material with price addition p
material_scaled(p, uom, length, height, quantity) ==
    IF uom = SFT THEN p * length * height * quantity
    ELSE IF uom = RFT THEN p * length * quantity
    ELSE p * quantity

\* lines 37-52: item["material"].get(..) raises when material is None
material_addition(item, uom, length, height, quantity) ==
    IF item.material.k = "absent" THEN Ok(0)
    ELSE IF item.material.k = "none" THEN Raise
    ELSE IF ~Truthy(item.material.selected) THEN Ok(0)
    ELSE IF item.material.selected.s \in DOMAIN item.material.price_additions
         THEN Ok(material_scaled(
                    item.material.price_additions[item.material.selected.s],
                    uom, length, height, quantity))
         ELSE Ok(0)

\* lines 68-77: the cost of one selected add-on of rate add_on_rate
add_on_scaled(add_on_rate, uom, length, height, quantity) ==
    IF uom = SFT THEN add_on_rate * length * height * quantity
    ELSE IF uom = RFT THEN add_on_rate * length * quantity
    ELSE add_on_rate * quantity

\* mapping_add_on_cost without the test of the selected flag
mapping_add_on_cost_all(d, uom, length, height, quantity) ==
    LET cost == [n \in DOMAIN d |->
                    add_on_scaled(float_or_zero(d[n].rate_per_unit).v,
                                  uom, length, height, quantity)]
    IN  IF \E n \in DOMAIN d : ~float_or_zero(d[n].rate_per_unit).ok
        THEN Raise
        ELSE Ok(SumOver(cost, DOMAIN d))

\* lines 56-77: add_ons is a dict; d maps each name to its info
mapping_add_on_cost(d, uom, length, height, quantity) ==
    LET chosen == {n \in DOMAIN d : Truthy(d[n].selected)}
        cost == [n \in chosen |->
                    add_on_scaled(float_or_zero(d[n].rate_per_unit).v,
                                  uom, length, height, quantity)]
    IN  IF \E n \in chosen : ~float_or_zero(d[n].rate_per_unit).ok
        THEN Raise
        ELSE Ok(SumOver(cost, chosen))

\* legacy_one without the test of the unit of measure
legacy_one_any_uom(add_on, uom, length, height, quantity) ==
    IF add_on = <<"profile door">> THEN ProfileDoorRate * length * height * quantity
    ELSE IF add_on = <<"lights">> THEN LightsRate * length * height * quantity
    ELSE 0

\* lines 84-93: one name of a legacy add_ons string
legacy_one(add_on, uom, length, height, quantity) ==
    IF add_on = <<"profile door">>
    THEN (IF uom = SFT THEN ProfileDoorRate * length * height * quantity ELSE 0)
    ELSE IF add_on = <<"lights">>
    THEN (IF uom = SFT THEN LightsRate * length * height * quantity ELSE 0)
    ELSE 0

\* lines 80-93: add_ons is a non-empty string of comma-separated names
legacy_add_on_cost(s, uom, length, height, quantity) ==
    LET parts == split(s, ",")
        add_on_names == [i \in 1..Len(parts) |-> lower(strip(parts[i]))]
    IN  SumSeq([i \in 1..Len(parts) |->
                   legacy_one(add_on_names[i], uom, length, height, quantity)])

\* add_on_cost with the legacy rates also applied to the names of a mapping
add_on_cost_merged(item, uom, length, height, quantity) ==
    IF item.add_ons.k = "dict"
    THEN LET m == mapping_add_on_cost(item.add_ons.d, uom, length, height, quantity)
         IN  IF ~m.ok THEN Raise
             ELSE Ok(m.v + SumOver([n \in DOMAIN item.add_ons.d |->
                                       legacy_one(lower(strip(n)), uom, length,
                                                  height, quantity)],
                                   DOMAIN item.add_ons.d))
    ELSE IF item.add_ons.k = "str" /\ item.add_ons.s # <<>>
    THEN Ok(legacy_add_on_cost(item.add_ons.s, uom, length, height, quantity))
    ELSE Ok(0)

\* lines 54-96: the if / elif over the two representations of add_ons
add_on_cost(item, uom, length, height, quantity) ==
    IF item.add_ons.k = "dict"
    THEN mapping_add_on_cost(item.add_ons.d, uom, length, height, quantity)
    ELSE IF item.add_ons.k = "str" /\ item.add_ons.s # <<>>
    THEN Ok(legacy_add_on_cost(item.add_ons.s, uom, length, height, quantity))
    ELSE Ok(0)

calculate_item_amount(item) ==
    LET uom == item_uom(item)
        length == float_or_zero(item.length)
        height == float_or_zero(item.height)
        quantity == float_or_zero(item.quantity)
        rate == float_or_zero(item.rate)
    IN  IF ~(length.ok /\ height.ok /\ quantity.ok /\ rate.ok) THEN Raise
        ELSE LET mat == material_addition(item, uom, length.v, height.v, quantity.v)
             IN  IF ~mat.ok THEN Raise
                 ELSE LET ao == add_on_cost(item, uom, length.v, height.v, quantity.v)
                      IN  IF ~ao.ok THEN Raise
                          ELSE Ok(base_amount(uom, length.v, height.v,
                                              quantity.v, rate.v)
                                  + mat.v + ao.v)

(***************************************************************************)
(* The line-item records the pricing engine is applied to.                 *)
(***************************************************************************)
Item(u, l, h, q, r, m, a) ==
    [uom |-> u, length |-> l, height |-> h, quantity |-> q, rate |-> r,
     material |-> m, add_ons |-> a]

Material(sel, pa) == [k |-> "dict", selected |-> sel, price_additions |-> pa]
AddOns(d) == [k |-> "dict", d |-> d]
AddOn(sel, r) == [selected |-> sel, rate_per_unit |-> r]

LaminateVeneer == (<<"Laminate">> :> 0) @@ (<<"Veneer">> :> 3)
BlankVeneer == (<<>> :> 1) @@ (<<"Veneer">> :> 3)

Nums == {PyNum(n) : n \in 0..MaxNum}
Uoms == {Absent, PyNone, SFT, RFT, NOS, PyStr(<<"XYZ">>)}

MaterialSet ==
    {Absent}
    \cup {Material(s, LaminateVeneer) :
            s \in {Absent, PyNone, PyStr(<<>>), PyStr(<<"Laminate">>),
                   PyStr(<<"Veneer">>), PyStr(<<"Oak">>)}}
    \cup {Material(PyStr(<<>>), BlankVeneer), Material(PyStr(<<"Veneer">>), NoPrices)}

LightsInfo == {AddOn(Absent, PyNum(2)), AddOn(PyBool(FALSE), PyNum(2)),
               AddOn(PyBool(TRUE), PyNum(2))}
HandleInfo == {AddOn(PyBool(FALSE), PyNum(1)), AddOn(PyBool(TRUE), PyNum(1))}

MappingSet ==
    {AddOns([n \in {} |-> AddOn(Absent, Absent)])}
    \cup {AddOns(<<"lights">> :> a) : a \in LightsInfo}
    \cup {AddOns((<<"lights">> :> a) @@ (<<"Handle">> :> b)) :
            a \in LightsInfo, b \in HandleInfo}

LegacyChunks == {"lights", "Profile Door", "Oak", ",", " "}
LegacySet == {PyStr(s) : s \in StrSet(LegacyChunks, MaxLegacyLen)}

\* numeric fields as they arrive from a form or a file
LooseNums == {Absent, PyNone, PyStr(<<>>), PyStr(<<"Oak">>), PyStr(<<" ", "2">>),
              PyNum(MaxNum)}
LooseAddOns ==
    {Absent, PyNone,
     AddOns(<<"lights">> :> AddOn(PyBool(TRUE), PyStr(<<"Oak">>))),
     AddOns(<<"lights">> :> AddOn(PyBool(FALSE), PyStr(<<"Oak">>))),
     AddOns((<<"lights">> :> AddOn(PyBool(TRUE), PyNone))
            @@ (<<"Handle">> :> AddOn(PyBool(TRUE), Absent)))}

\* the scenarios of the specification (section 8)
ScenarioItems ==
    {Item(SFT, PyNum(10), PyNum(8), PyNum(1), PyNum(150), Absent, Absent),
     Item(RFT, PyNum(20), Absent, PyNum(2), PyNum(80), Absent, Absent)}

\* the records calculate_item_amount is applied to: every unit of measure and
\* every dimension with each material block; the mapping add-ons with and
\* without a material; the legacy strings; the loosely typed fields
IsCalcItem(x) ==
    \/ x \in ScenarioItems
    \/ \E u \in Uoms, l \in Nums, h \in Nums, q \in Nums, r \in Nums,
          m \in MaterialSet :
          x = Item(u, l, h, q, r, m, Absent)
    \/ \E u \in Uoms, l \in Nums, h \in Nums, q \in Nums, r \in Nums,
          m \in {Absent, Material(PyStr(<<"Veneer">>), LaminateVeneer)},
          a \in MappingSet :
          x = Item(u, l, h, q, r, m, a)
    \/ \E u \in {SFT, RFT, PyStr(<<"XYZ">>)}, l \in Nums, h \in Nums, q \in Nums,
          a \in LegacySet :
          x = Item(u, l, h, q, PyNum(1), Absent, a)
    \/ \E u \in {SFT, Absent}, l \in LooseNums, h \in LooseNums,
          q \in LooseNums, r \in LooseNums,
          m \in {Absent, PyNone, Material(PyStr(<<"Veneer">>), LaminateVeneer)},
          a \in LooseAddOns :
          x = Item(u, l, h, q, r, m, a)

(***************************************************************************)
(* SpecCalc: calculate_item_amount applied to one record.                  *)
(***************************************************************************)
InitCalc ==
    /\ pc = "call"
    /\ IsCalcItem(arg)
    /\ ret = PyNone
    /\ NoProject

Calculate ==
    /\ pc = "call"
    /\ ret' = calculate_item_amount(arg)
    /\ pc' = "done"
    /\ UNCHANGED <<arg, project>>

NextCalc == Calculate

SpecCalc == InitCalc /\ [][NextCalc]_vars

(***************************************************************************)
(* Calculator.parse_price_mapping and get_material_options_from_rate_card  *)
(***************************************************************************)
Contains(s, c) == \E i \in 1..Len(s) : s[i] = c

\* pair.split(':', 1): the text before the first colon, and the text after it
BeforeColon(pair) ==
    SubSeq(pair, 1, (CHOOSE i \in 1..Len(pair) :
                        pair[i] = ":" /\ \A j \in 1..(i - 1) : pair[j] # ":") - 1)
AfterColon(pair) ==
    SubSeq(pair, (CHOOSE i \in 1..Len(pair) :
                     pair[i] = ":" /\ \A j \in 1..(i - 1) : pair[j] # ":") + 1,
           Len(pair))

\* the loop giving up, and dropping what it has, at the first pair it skips
RECURSIVE parse_pairs_all_or_nothing(_, _)
parse_pairs_all_or_nothing(pairs, price_map) ==
    IF pairs = <<>> THEN price_map
    ELSE LET pair == Head(pairs)
         IN  IF Contains(pair, ":") /\ float(strip(AfterColon(pair))).ok
             THEN parse_pairs_all_or_nothing(
                      Tail(pairs),
                      (strip(BeforeColon(pair))
                          :> float(strip(AfterColon(pair))).v) @@ price_map)
             ELSE NoPrices

\* lines 155-165: the loop over the pairs, a later pair replacing an earlier
\* one of the same name; a pair without a colon or without a number is skipped
RECURSIVE parse_pairs(_, _)
parse_pairs(pairs, price_map) ==
    IF pairs = <<>> THEN price_map
    ELSE LET pair == Head(pairs)
         IN  IF Contains(pair, ":") /\ float(strip(AfterColon(pair))).ok
             THEN parse_pairs(Tail(pairs),
                              (strip(BeforeColon(pair))
                                  :> float(strip(AfterColon(pair))).v) @@ price_map)
             ELSE parse_pairs(Tail(pairs), price_map)

\* Calculator.parse_price_mapping(price_string)
parse_price_mapping(price_string) ==
    IF ~Truthy(price_string) THEN NoPrices
    ELSE parse_pairs(split(price_string.s, ","), NoPrices)

\* every option without a price of its own priced as an unknown name
default_price_flat(option_lower) == 300

\* lines 202-217: the price of an option the rate card gives no price for
default_price(option_lower) ==
    CASE option_lower = <<"laminate">> -> 0
      [] option_lower = <<"veneer">> -> 500
      [] option_lower = <<"pu">> -> 800
      [] option_lower = <<"acrylic">> -> 600
      [] option_lower = <<"premium">> -> 400
      [] option_lower = <<"texture">> -> 200
      [] OTHER -> 300

\* lines 196-217: the loop over options_list[1:], in order
RECURSIVE set_prices(_, _, _)
set_prices(options, material_prices, price_additions) ==
    IF options = <<>> THEN price_additions
    ELSE LET option == Head(options)
         IN  set_prices(Tail(options), material_prices,
                        (option :> (IF option \in DOMAIN material_prices
                                    THEN material_prices[option]
                                    ELSE default_price(lower(option))))
                            @@ price_additions)

\* Calculator.get_material_options_from_rate_card(rate_card_item)
get_material_options_from_rate_card(rate_card_item) ==
    IF Truthy(rate_card_item.material_options)
    THEN LET parts == split(rate_card_item.material_options.s, ",")
             options_list == [i \in 1..Len(parts) |-> strip(parts[i])]
             base_material == options_list[1]
             material_prices ==
                 IF Truthy(rate_card_item.material_prices)
                 THEN parse_price_mapping(rate_card_item.material_prices)
                 ELSE NoPrices
         IN  [options |-> options_list,
              base_material |-> PyStr(base_material),
              price_additions |-> set_prices(Tail(options_list), material_prices,
                                             base_material :> 0)]
    ELSE [options |-> <<>>, base_material |-> PyNone, price_additions |-> NoPrices]

(***************************************************************************)
(* SpecRate: the material block extracted from one rate-card record.       *)
(***************************************************************************)
OptChunks == {"Veneer", "Oak", ",", " "}
PriceChunks == {"Veneer", ":", "2", ","}

\* the names of the default price table in the letter cases a rate card may
\* use, a name outside the table, and the list "Laminate, Veneer, PU"
OptionNames ==
    {"Laminate", "laminate", "Veneer", "veneer", "VENEER", "PU", "pu", "Acrylic",
     "acrylic", "Premium", "premium", "Texture", "texture", "Oak"}
LaminateVeneerPU == <<"Laminate", ",", " ", "Veneer", ",", " ", "PU">>
ScenarioOptions ==
    {PyStr(<<"Oak", ",", " ", name>>) : name \in OptionNames}
    \cup {PyStr(LaminateVeneerPU)}

OptionStrings ==
    {Absent, PyNone} \cup {PyStr(s) : s \in StrSet(OptChunks, MaxOptLen)}
    \cup ScenarioOptions
\* "Lights:250,Profile Door:150", "bad,Lights:250", a pair with blanks around
\* its name and number, a pair with a second colon before a good pair, one
\* name priced twice
LightsAndDoor ==
    <<"Lights", ":", "2", "5", "0", ",", "Profile Door", ":", "1", "5", "0">>
BadThenLights == <<"bad", ",", "Lights", ":", "2", "5", "0">>
ScenarioPrices ==
    {PyStr(LightsAndDoor), PyStr(BadThenLights),
     PyStr(<<" ", "Veneer", " ", ":", " ", "2", " ", ",", "Oak", ":", "x">>),
     PyStr(<<"Veneer", ":", "2", ":", "2", ",", "Oak", ":", "3">>),
     PyStr(<<"Veneer", ":", "2", ",", "Oak", ":", ",", "Veneer", ":", "3">>)}

PriceStrings ==
    {Absent, PyNone} \cup {PyStr(s) : s \in StrSet(PriceChunks, MaxPriceLen)}
    \cup ScenarioPrices

InitRate ==
    /\ pc = "rate_card"
    /\ \E o \in OptionStrings, p \in PriceStrings :
          arg = [material_options |-> o, material_prices |-> p]
    /\ ret = PyNone
    /\ NoProject

ExtractMaterial ==
    /\ pc = "rate_card"
    /\ ret' = get_material_options_from_rate_card(arg)
    /\ pc' = "material"
    /\ UNCHANGED <<arg, project>>

\* Calculator.parse_price_mapping on the record's material_prices
ParsePrices ==
    /\ pc = "rate_card"
    /\ ret' = parse_price_mapping(arg.material_prices)
    /\ pc' = "prices"
    /\ UNCHANGED <<arg, project>>

NextRate == ExtractMaterial \/ ParsePrices

SpecRate == InitRate /\ [][NextRate]_vars

\* the material block of a line item made from an extraction, with a selection
MaterialBlock(m, sel) ==
    [k |-> "dict", options |-> m.options, base_material |-> m.base_material,
     price_additions |-> m.price_additions, selected |-> sel]

(***************************************************************************)
(* What the specification says an amount is, stated from its text.         *)
(***************************************************************************)
FieldNum(x) == IF x.k = "num" THEN x.n ELSE 0

\* the base quantity factor of section 4.1
Factor(item) ==
    IF item.uom = SFT THEN FieldNum(item.length) * FieldNum(item.height)
    ELSE IF item.uom = RFT THEN FieldNum(item.length)
    ELSE 1

ExpBase(item) == Factor(item) * FieldNum(item.quantity) * FieldNum(item.rate)

MaterialChosen(item) ==
    /\ item.material.k = "dict"
    /\ item.material.selected.k = "str"
    /\ item.material.selected.s # <<>>
    /\ item.material.selected.s \in DOMAIN item.material.price_additions

ExpMaterial(item) ==
    IF MaterialChosen(item)
    THEN item.material.price_additions[item.material.selected.s]
            * Factor(item) * FieldNum(item.quantity)
    ELSE 0

Checked(item) ==
    IF item.add_ons.k = "dict"
    THEN {n \in DOMAIN item.add_ons.d : item.add_ons.d[n].selected = PyBool(TRUE)}
    ELSE {}

ExpMapping(item) ==
    SumOver([n \in Checked(item) |->
                FieldNum(item.add_ons.d[n].rate_per_unit)
                    * Factor(item) * FieldNum(item.quantity)],
            Checked(item))

\* how often the name occurs in a comma-separated string, blanks and case aside
Occurrences(s, name) ==
    LET parts == split(s, ",")
    IN  Cardinality({i \in 1..Len(parts) : lower(strip(parts[i])) = name})

ExpLegacy(item) ==
    IF item.add_ons.k = "str" /\ item.uom = SFT
    THEN (ProfileDoorRate * Occurrences(item.add_ons.s, <<"profile door">>)
          + LightsRate * Occurrences(item.add_ons.s, <<"lights">>))
         * FieldNum(item.length) * FieldNum(item.height) * FieldNum(item.quantity)
    ELSE 0

NumericFields(item) ==
    \A x \in {item.length, item.height, item.quantity, item.rate} :
        x.k \in {"num", "absent"}

\* a record with numbers where numbers are expected
WellFormed(item) ==
    /\ NumericFields(item)
    /\ item.material.k # "none"
    /\ item.add_ons.k = "dict" =>
          \A n \in DOMAIN item.add_ons.d : item.add_ons.d[n].rate_per_unit.k = "num"

Recognised(u) == u \in {SFT, RFT, NOS}

(***************************************************************************)
(* Claims about calculate_item_amount, checked under SpecCalc.             *)
(***************************************************************************)

\* C1: with no material block and no add_ons the amount is
\* length x height x quantity x rate for SFT, length x quantity x rate for
\* RFT (height ignored) and quantity x rate for NOS (length, height ignored).
C1_BaseAmount ==
    (pc = "done" /\ arg.material.k = "absent" /\ arg.add_ons.k = "absent"
        /\ NumericFields(arg))
    => /\ arg.uom = SFT =>
            ret = Ok(FieldNum(arg.length) * FieldNum(arg.height)
                        * FieldNum(arg.quantity) * FieldNum(arg.rate))
       /\ arg.uom = RFT =>
            ret = Ok(FieldNum(arg.length) * FieldNum(arg.quantity)
                        * FieldNum(arg.rate))
       /\ arg.uom = NOS =>
            ret = Ok(FieldNum(arg.quantity) * FieldNum(arg.rate))

C1_Witness ==
    /\ pc = "done"
    /\ arg = Item(SFT, PyNum(10), PyNum(8), PyNum(1), PyNum(150), Absent, Absent)
    /\ ret = Ok(12000)

\* C3: a selected material that is a key of price_additions with surcharge p
\* adds exactly p x F x quantity to the amount of the same item without a
\* material; an empty selection or one that is no key adds nothing.
C3_MaterialSurcharge ==
    (pc = "done" /\ arg.material.k = "dict" /\ WellFormed(arg))
    => LET plain == calculate_item_amount([arg EXCEPT !.material = Absent])
       IN  /\ plain.ok
           /\ IF MaterialChosen(arg)
              THEN ret = Ok(plain.v
                            + arg.material.price_additions[arg.material.selected.s]
                                * Factor(arg) * FieldNum(arg.quantity))
              ELSE ret = plain

C3_Witness ==
    /\ pc = "done"
    /\ arg = Item(SFT, PyNum(2), PyNum(2), PyNum(2), PyNum(1),
                  Material(PyStr(<<"Veneer">>), LaminateVeneer), Absent)
    /\ ret = Ok(8 + 3 * 8)

\* C5: with add_ons a mapping the amount is base + material addition + the
\* sum of rate_per_unit x F x quantity over exactly the entries whose
\* selected flag is true.
C5_MappingAddOns ==
    (pc = "done" /\ arg.add_ons.k = "dict" /\ WellFormed(arg))
    => ret = Ok(ExpBase(arg) + ExpMaterial(arg) + ExpMapping(arg))

C5_Witness ==
    /\ pc = "done"
    /\ arg = Item(SFT, PyNum(2), PyNum(2), PyNum(2), PyNum(1),
                  Material(PyStr(<<"Veneer">>), LaminateVeneer),
                  AddOns((<<"lights">> :> AddOn(PyBool(TRUE), PyNum(2)))
                         @@ (<<"Handle">> :> AddOn(PyBool(TRUE), PyNum(1)))))
    /\ ret = Ok(8 + 24 + 24)

\* C6: with add_ons a legacy string the add-on cost is 150 x length x height
\* x quantity for each "profile door" and 250 x length x height x quantity for
\* each "lights" when uom is SFT, 0 for any other uom; other names add 0 and
\* nothing raises.
C6_LegacyAddOns ==
    (pc = "done" /\ arg.add_ons.k = "str" /\ WellFormed(arg))
    => ret = Ok(ExpBase(arg) + ExpMaterial(arg) + ExpLegacy(arg))

C6_Witness ==
    /\ pc = "done"
    /\ arg = Item(SFT, PyNum(2), PyNum(2), PyNum(2), PyNum(1), Absent,
                  PyStr(<<"lights", ",", "Profile Door">>))
    /\ ret = Ok(8 + 400 * 8)

\* the legacy rates applied to the keys of a mapping, as if they were names of
\* a legacy string
LegacyOfKeys(item) ==
    IF item.add_ons.k = "dict" /\ item.uom = SFT
    THEN ((IF <<"profile door">> \in DOMAIN item.add_ons.d THEN ProfileDoorRate ELSE 0)
          + (IF <<"lights">> \in DOMAIN item.add_ons.d THEN LightsRate ELSE 0))
         * FieldNum(item.length) * FieldNum(item.height) * FieldNum(item.quantity)
    ELSE 0

\* C7: the add-on cost comes from one representation only: for a mapping it is
\* the mapping's cost, the rates 150 and 250 never applied to its names; for a
\* string it is the legacy cost; the two are never summed.
C7_OneRepresentation ==
    (pc = "done" /\ WellFormed(arg) /\ arg.add_ons.k \in {"dict", "str"})
    => /\ ret.ok
       /\ LET part == ret.v - ExpBase(arg) - ExpMaterial(arg)
          IN  /\ arg.add_ons.k = "dict" => part = ExpMapping(arg)
              /\ arg.add_ons.k = "str" => part = ExpLegacy(arg)
              /\ LegacyOfKeys(arg) # 0 => part # ExpMapping(arg) + LegacyOfKeys(arg)

C7_Witness ==
    /\ pc = "done"
    /\ arg = Item(SFT, PyNum(2), PyNum(2), PyNum(2), PyNum(1), Absent,
                  AddOns(<<"lights">> :> AddOn(PyBool(TRUE), PyNum(2))))
    /\ ret = Ok(8 + 2 * 8)

BadNumber(x) == x.k = "str" /\ x.s # <<>> /\ ~float(x.s).ok

\* C8: a length, height, quantity, rate or add-on rate_per_unit that cannot
\* be converted to a number counts as 0 and a number is returned; nothing is
\* raised.
C8_BadNumberIsZero ==
    (pc = "done" /\ arg.material.k # "none"
        /\ \/ \E x \in {arg.length, arg.height, arg.quantity, arg.rate} : BadNumber(x)
           \/ /\ arg.add_ons.k = "dict"
              /\ \E n \in DOMAIN arg.add_ons.d : BadNumber(arg.add_ons.d[n].rate_per_unit))
    => ret.ok

NoneOrAbsentOrNum(x) == x.k \in {"absent", "none", "num"}

\* C9: a length, height, quantity, rate, material or add_ons that is absent
\* or none raises nothing: the numeric field counts as 0, the material or
\* add_ons adds no surcharge.
C9_AbsentOrNone ==
    (pc = "done"
        /\ \A x \in {arg.length, arg.height, arg.quantity, arg.rate} :
              NoneOrAbsentOrNum(x)
        /\ arg.add_ons.k \in {"absent", "none"}
        /\ arg.material.k \in {"absent", "none"})
    => ret = Ok(ExpBase(arg))

\* C10: a missing uom, or one that is none of SFT, RFT and NOS, prices the
\* item exactly as uom = NOS does: base, material surcharge and mapping
\* add-ons scale with quantity alone, and nothing is raised.
C10_UnknownUomIsNos ==
    (pc = "done" /\ ~Recognised(arg.uom))
    => /\ ret = calculate_item_amount([arg EXCEPT !.uom = NOS])
       /\ WellFormed(arg) =>
            ret = Ok(FieldNum(arg.quantity) * FieldNum(arg.rate)
                     + (IF MaterialChosen(arg)
                        THEN arg.material.price_additions[arg.material.selected.s]
                                * FieldNum(arg.quantity)
                        ELSE 0)
                     + SumOver([n \in Checked(arg) |->
                                   FieldNum(arg.add_ons.d[n].rate_per_unit)
                                       * FieldNum(arg.quantity)],
                               Checked(arg)))

C10_Witness ==
    /\ pc = "done"
    /\ arg = Item(PyStr(<<"XYZ">>), PyNum(2), PyNum(2), PyNum(2), PyNum(2),
                  Material(PyStr(<<"Veneer">>), LaminateVeneer),
                  AddOns(<<"lights">> :> AddOn(PyBool(TRUE), PyNum(2))))
    /\ ret = Ok(4 + 6 + 4)

(***************************************************************************)
(* Claims about the rate-card extraction, checked under SpecRate.          *)
(***************************************************************************)

\* C4: an item whose material block comes from
\* get_material_options_from_rate_card and whose selection is the block's
\* base_material costs what the same item costs with nothing selected, for
\* every uom, length, height, quantity and rate.
C4_BaseMaterialFree ==
    (pc = "material" /\ ret.base_material.k = "str")
    => \A u \in Uoms, l \in Nums, h \in Nums, q \in Nums, r \in Nums :
          calculate_item_amount(
              Item(u, l, h, q, r, MaterialBlock(ret, ret.base_material), Absent))
          = calculate_item_amount(
              Item(u, l, h, q, r, MaterialBlock(ret, PyNone), Absent))

(***************************************************************************)
(* Bounds of the project model.                                            *)
(***************************************************************************)
MaxRooms == 2          \* rooms in the project
MaxItems == 2          \* line items in the project
MaxRateCard == 2       \* records in the rate card
MaxDialogEvents == 2   \* widget edits the user makes in one options dialog
MaxOps == 4            \* handlers the user runs in one session

(***************************************************************************)
(* Calculator.get_add_ons_from_rate_card                                   *)
(***************************************************************************)
NoAddOns == [n \in {} |-> AddOn(PyBool(FALSE), PyNum(0))]

\* every add-on without a price of its own rated as an unknown name
default_add_on_rate_flat(add_on_lower) == 100

\* lines 249-260: the rate of an add-on the rate card gives no price for
default_add_on_rate(add_on_lower) ==
    CASE add_on_lower = <<"profile door">> -> 150
      [] add_on_lower = <<"lights">> -> 250
      [] OTHER -> 100

\* Calculator.get_add_ons_from_rate_card(rate_card_item)
get_add_ons_from_rate_card(rate_card_item) ==
    IF Truthy(rate_card_item.add_ons) /\ lower(rate_card_item.add_ons.s) # <<"none">>
    THEN LET parts == split(rate_card_item.add_ons.s, ",")
             add_ons_list == {strip(parts[i]) : i \in 1..Len(parts)}
             addon_prices ==
                 IF Truthy(rate_card_item.addon_prices)
                 THEN parse_price_mapping(rate_card_item.addon_prices)
                 ELSE NoPrices
         IN  [add_on \in add_ons_list |->
                 AddOn(PyBool(FALSE),
                       PyNum(IF add_on \in DOMAIN addon_prices
                             THEN addon_prices[add_on]
                             ELSE default_add_on_rate(lower(add_on))))]
    ELSE NoAddOns

(***************************************************************************)
(* Rate card records and line items.                                       *)
(***************************************************************************)
RateCardItem(category, item, uom, rate, material_options, material_prices, add_ons, addon_prices) ==
    [category |-> category, item |-> item, uom |-> uom, rate |-> rate,
     material_options |-> material_options, material_prices |-> material_prices,
     add_ons |-> add_ons, addon_prices |-> addon_prices]

\* RateCard.populate_default_items: the record of the default catalogue that
\* has both material options and an add-on
DefaultItems ==
    <<RateCardItem(<<"Decorative">>, <<"False Ceiling">>, <<"SFT">>, 220,
                   PyStr(<<"Regular", ",", " ", "Cove">>), Absent,
                   PyStr(<<"Lights">>), Absent)>>

\* AddEditItemDialog.get_item_data: the records a user types into the form
TypedItems ==
    {RateCardItem(<<"General">>, <<"Panel">>, <<"NOS">>, MaxNum,
                  PyStr(<<",", "Veneer">>), PyStr(<<>>), PyStr(<<>>), PyStr(<<>>)),
     RateCardItem(<<"General">>, <<"Panel">>, <<"NOS">>, MaxNum,
                  PyStr(<<"Oak", ",", "Veneer">>), PyStr(<<"Veneer", ":", "2">>),
                  PyStr(<<"None">>), PyStr(<<>>))}

LineItem(room, category, item, uom, length, height, quantity, rate, amount, material, add_ons) ==
    [room |-> room, category |-> category, item |-> item, uom |-> uom,
     length |-> length, height |-> height, quantity |-> quantity, rate |-> rate,
     amount |-> amount, material |-> material, add_ons |-> add_ons]

\* item["amount"] = calculate_item_amount(item)
with_amount(item_data) ==
    CHOOSE priced \in {[item EXCEPT !.amount = PyNum(calculate_item_amount(item).v)] :
                          item \in {item_data}} : TRUE

\* SelectFromRateCardDialog.create_item_from_rate_card(rate_card_item)
create_item_from_rate_card(rate_card_item) ==
    LET uom == rate_card_item.uom
        material_data == get_material_options_from_rate_card(rate_card_item)
        material ==
            IF Truthy(rate_card_item.material_options) /\ material_data.options # <<>>
            THEN MaterialBlock(material_data,
                               IF Truthy(material_data.base_material)
                               THEN material_data.base_material ELSE Absent)
            ELSE Absent
        add_ons == get_add_ons_from_rate_card(rate_card_item)
    IN  with_amount(
            LineItem(Absent, PyStr(rate_card_item.category),
                     PyStr(rate_card_item.item), PyStr(uom),
                     IF uom \in {<<"SFT">>, <<"RFT">>} THEN PyNum(0) ELSE PyStr(<<>>),
                     IF uom = <<"SFT">> THEN PyNum(0) ELSE PyStr(<<>>),
                     PyNum(1), PyNum(rate_card_item.rate), PyNum(0), material,
                     IF DOMAIN add_ons # {} THEN AddOns(add_ons) ELSE Absent))

\* quick_add_item / add_to_selection_with_options: the record of the rate
\* card found for a table row, the first with the row's category, name, unit
\* and rate
found_item(items, row) ==
    items[CHOOSE i \in 1..Len(items) :
             /\ items[i].category = items[row].category
             /\ items[i].item = items[row].item
             /\ items[i].uom = items[row].uom
             /\ items[i].rate = items[row].rate
             /\ \A j \in 1..(i - 1) :
                   ~(/\ items[j].category = items[row].category
                     /\ items[j].item = items[row].item
                     /\ items[j].uom = items[row].uom
                     /\ items[j].rate = items[row].rate)]

(***************************************************************************)
(* ItemOptionsDialog.  A dialog is its working copy item_data and the      *)
(* values of its widgets.  The nested material and add_ons dicts of        *)
(* item_data are the objects of the record the dialog was opened on: every *)
(* copy the dialog makes is shallow.  The constructor and the user act on  *)
(* the widgets one command at a time; a widget whose value changes fires   *)
(* its signal, and every signal ends in update_preview.                    *)
(***************************************************************************)
NoChecks == [n \in {} |-> FALSE]

\* init_ui: the widgets as created
NewDialog(item_data) ==
    [item_data |-> item_data, item_name |-> <<>>, uom_combo |-> "SFT",
     rate_spin |-> 0, length_spin |-> 0, height_spin |-> 0, quantity_spin |-> 1,
     material_combo |-> <<>>, material_index |-> 0, addon_checkboxes |-> NoChecks]

\* material_combo.currentText()
currentText(D) ==
    IF D.material_index = 0 THEN <<>> ELSE D.material_combo[D.material_index]

\* update_preview: lines 363-442.  base_item and material_item share the
\* nested dicts of preview_item, so the base material written at line 391
\* and the flags cleared at lines 396 and 410 are what item_data keeps.
update_preview(D) ==
    LET it == D.item_data
        material ==
            IF it.material.k = "absent" THEN it.material
            ELSE [it.material EXCEPT !.selected =
                     IF Truthy(it.material.base_material)
                     THEN it.material.base_material
                     ELSE PyStr(currentText(D))]
        add_ons ==
            IF it.add_ons.k = "dict"
            THEN AddOns([n \in DOMAIN it.add_ons.d |->
                            [it.add_ons.d[n] EXCEPT !.selected = PyBool(FALSE)]])
            ELSE it.add_ons
        preview_item ==
            [it EXCEPT !.item = PyStr(D.item_name), !.uom = PyStr(<<D.uom_combo>>),
                       !.rate = PyNum(D.rate_spin), !.length = PyNum(D.length_spin),
                       !.height = PyNum(D.height_spin),
                       !.quantity = PyNum(D.quantity_spin),
                       !.material = material, !.add_ons = add_ons]
    IN  [D EXCEPT !.item_data = with_amount(preview_item)]

\* material_combo.findText(text), 0 when there is none
findText(combo, text) ==
    IF \E i \in 1..Len(combo) : combo[i] = text
    THEN CHOOSE i \in 1..Len(combo) :
            combo[i] = text /\ \A j \in 1..(i - 1) : combo[j] # text
    ELSE 0

\* A command on the widgets: t is what is done, u the widget or the text,
\* n the number, a the add-on.
Command(t, u, n, a) == [t |-> t, u |-> u, n |-> n, a |-> a]

\* __init__, lines 26-27: the statements of populate_data in order, then the
\* call of update_preview
Construction ==
    <<Command("item_name", "", 0, <<>>), Command("uom_combo", "", 0, <<>>),
      Command("from_item", "rate_spin", 0, <<>>),
      Command("from_item", "length_spin", 0, <<>>),
      Command("from_item", "height_spin", 0, <<>>),
      Command("from_item", "quantity_spin", 0, <<>>),
      Command("populate_materials", "", 0, <<>>),
      Command("populate_addons", "", 0, <<>>),
      Command("update_preview", "", 0, <<>>)>>

\* the key of item_data a spin box is filled from
spin_field(spin) ==
    CASE spin = "rate_spin" -> "rate"
      [] spin = "length_spin" -> "length"
      [] spin = "height_spin" -> "height"
      [] spin = "quantity_spin" -> "quantity"

\* what one command does: the dialog after it, whether a signal connected to
\* update_preview fired, and the commands it leads to
Done(D, fired, more) == [D |-> D, fired |-> fired, more |-> more]

on_command(D, c) ==
    CASE c.t = "item_name" ->
           \* line 219: setText, textChanged fires when the text changes
           LET text == IF D.item_data.item.k = "str" THEN D.item_data.item.s
                       ELSE <<>>
           IN  Done([D EXCEPT !.item_name = text], D.item_name # text, <<>>)
      [] c.t = "uom_combo" ->
           \* lines 222-225: the unit as item_data holds it now
           LET uom == IF D.item_data.uom.k = "absent" THEN <<"SFT">>
                      ELSE D.item_data.uom.s
           IN  Done(D, FALSE,
                    IF uom \in {<<"SFT">>, <<"RFT">>, <<"NOS">>}
                    THEN <<Command("uom", uom[1], 0, <<>>)>> ELSE <<>>)
      [] c.t = "from_item" ->
           \* lines 228-233: the number as item_data holds it now
           LET value == float_or_zero(D.item_data[spin_field(c.u)]).v
           IN  Done(D, FALSE,
                    <<Command("spin", c.u,
                              IF c.u = "quantity_spin" /\ value = 0 THEN 1 ELSE value,
                              <<>>)>>)
      [] c.t = "populate_materials" ->
           \* lines 245-267: selected is read before the combo is filled;
           \* filling the empty combo makes its first entry current
           IF D.item_data.material.k = "absent" \/ D.item_data.material.options = <<>>
           THEN Done(D, FALSE, <<>>)
           ELSE LET options == D.item_data.material.options
                    selected == D.item_data.material.selected
                IN  Done([D EXCEPT !.material_combo = options, !.material_index = 1],
                         TRUE,
                         IF Truthy(selected) /\ findText(options, selected.s) # 0
                         THEN <<Command("material", "", findText(options, selected.s),
                                        <<>>)>>
                         ELSE <<>>)
      [] c.t = "populate_addons" ->
           \* lines 313-355: the boxes are checked before stateChanged is connected
           IF D.item_data.add_ons.k = "dict" /\ DOMAIN D.item_data.add_ons.d # {}
           THEN Done([D EXCEPT !.addon_checkboxes =
                         [n \in DOMAIN D.item_data.add_ons.d |->
                             Truthy(D.item_data.add_ons.d[n].selected)]],
                     FALSE, <<>>)
           ELSE Done(D, FALSE, <<>>)
      [] c.t = "update_preview" -> Done(D, TRUE, <<>>)
      [] c.t = "uom" ->
           \* uom_combo.setCurrentIndex and on_uom_changed, lines 186-211: the
           \* height becomes 1 if it was 0 (SFT) or 0 (RFT, NOS), then the preview
           IF D.uom_combo = c.u THEN Done(D, FALSE, <<>>)
           ELSE Done([D EXCEPT !.uom_combo = c.u], FALSE,
                     <<Command("spin", "height_spin",
                               IF c.u = "SFT"
                               THEN (IF D.height_spin # 0 THEN D.height_spin ELSE 1)
                               ELSE 0,
                               <<>>),
                       Command("update_preview", "", 0, <<>>)>>)
      [] c.t = "spin" ->
           \* QDoubleSpinBox.setValue: valueChanged fires when the value changes
           Done([D EXCEPT ![c.u] = c.n], D[c.u] # c.n, <<>>)
      [] c.t = "material" ->
           \* material_combo.setCurrentIndex
           Done([D EXCEPT !.material_index = c.n], D.material_index # c.n, <<>>)
      [] c.t = "toggle" ->
           \* a click on the checkbox of an add-on
           Done([D EXCEPT !.addon_checkboxes[c.a] = ~@], TRUE, <<>>)

\* one command and the slot its signal is connected to
step(D, c) ==
    CHOOSE after \in {[D |-> IF done.fired THEN update_preview(done.D) ELSE done.D,
                        more |-> done.more] : done \in {on_command(D, c)}} : TRUE

\* the commands in order, each followed by the commands it leads to
RECURSIVE run(_, _)
run(D, commands) ==
    IF commands = <<>> THEN D
    ELSE CHOOSE result \in {run(s.D, s.more \o Tail(commands)) :
                                s \in {step(D, Head(commands))}} : TRUE

\* What the user does in an open dialog: picks another unit, types MaxNum
\* into the rate or the length box, picks a material, clicks an add-on.
DialogEvents(item_data) ==
    {Command("uom", u, 0, <<>>) : u \in {"RFT", "NOS"}}
    \cup {Command("spin", s, MaxNum, <<>>) : s \in {"rate_spin", "length_spin"}}
    \cup {Command("material", "", i, <<>>) :
            i \in 1..(IF item_data.material.k = "dict"
                      THEN Len(item_data.material.options) ELSE 0)}
    \cup {Command("toggle", "", 0, a) :
            a \in IF item_data.add_ons.k = "dict" THEN DOMAIN item_data.add_ons.d
                  ELSE {}}

EventSeqs(item_data) == StrSet(DialogEvents(item_data), MaxDialogEvents)

\* ItemOptionsDialog(parent, item_data, calculation_controller), exec_() with
\* the user's events, and get_item_data()
get_item_data(item_data, events) ==
    run(NewDialog(item_data), Construction \o events).item_data

(***************************************************************************)
(* Project, and the handlers of RoomsView, RateCardView and ScopeView.     *)
(***************************************************************************)
RoomTypes == {"Bedroom"}

\* str(n) of a small count
str(n) == <<"0", "1", "2", "3", "4", "5", "6", "7", "8", "9">>[n + 1]

\* scope_room_selector.currentText()
current_room == IF scope_index = 0 THEN <<>> ELSE rooms[scope_index].name

\* ScopeView.update_room_selector: the selector is refilled and the first
\* entry with the text shown before is made current, else the first entry
update_room_selector(new_rooms) ==
    IF new_rooms = <<>> THEN 0
    ELSE IF current_room # <<>>
            /\ \E i \in 1..Len(new_rooms) : new_rooms[i].name = current_room
         THEN CHOOSE i \in 1..Len(new_rooms) :
                 /\ new_rooms[i].name = current_room
                 /\ \A j \in 1..(i - 1) : new_rooms[j].name # current_room
         ELSE 1

\* Project.get_line_items(room): the positions of the room's items
RECURSIVE room_items(_, _, _)
room_items(items, room, i) ==
    IF i > Len(items) THEN <<>>
    ELSE (IF items[i].room = PyStr(room) THEN <<i>> ELSE <<>>)
         \o room_items(items, room, i + 1)

\* the loop "if item['room'] == room_name and item == room_items[row]"
item_index_of(items, room, row) ==
    LET shown == items[room_items(items, room, 1)[row]]
    IN  CHOOSE i \in 1..Len(items) :
           /\ items[i].room = PyStr(room) /\ items[i] = shown
           /\ \A j \in 1..(i - 1) : ~(items[j].room = PyStr(room) /\ items[j] = shown)

\* the loop of ScopeView.delete_line_item: the first item of the room that
\* has the name of the row
index_by_name(items, room, row) ==
    LET item_name == items[room_items(items, room, 1)[row]].item
    IN  CHOOSE i \in 1..Len(items) :
           /\ items[i].room = PyStr(room) /\ items[i].item = item_name
           /\ \A j \in 1..(i - 1) :
                 ~(items[j].room = PyStr(room) /\ items[j].item = item_name)

\* del seq[index]
Remove(seq, index) == SubSeq(seq, 1, index - 1) \o SubSeq(seq, index + 1, Len(seq))

\* a deletion of a room that keeps the items of the room
with_room_kept(items, room_name) == items

\* the list comprehension of Project.delete_room
RECURSIVE without_room(_, _)
without_room(items, room_name) ==
    IF items = <<>> THEN <<>>
    ELSE (IF Head(items).room # PyStr(room_name) THEN <<Head(items)>> ELSE <<>>)
         \o without_room(Tail(items), room_name)

InitProject ==
    /\ pc = "project"
    /\ arg = PyNone
    /\ ret = PyNone
    /\ rooms = <<>>
    /\ line_items = <<>>
    /\ rate_card = DefaultItems
    /\ scope_index = 0
    /\ ops = 0

\* one more handler of the session
Handler == pc = "project" /\ ops < MaxOps /\ ops' = ops + 1

\* RoomsView.add_room
add_room(room_type) ==
    /\ Handler
    /\ Len(rooms) < MaxRooms
    /\ LET count == Cardinality({i \in 1..Len(rooms) : rooms[i].type = room_type})
           room_data == [type |-> room_type,
                         name |-> <<room_type, " ", str(count + 1)>>]
       IN  /\ rooms' = Append(rooms, room_data)
           /\ scope_index' = update_room_selector(Append(rooms, room_data))
    /\ UNCHANGED <<pc, arg, ret, line_items, rate_card>>

\* RoomsView.delete_room and Project.delete_room
delete_room(row, reply) ==
    /\ Handler
    /\ row \in 1..Len(rooms)
    /\ rooms' = IF reply THEN Remove(rooms, row) ELSE rooms
    /\ line_items' = IF reply THEN without_room(line_items, rooms[row].name)
                     ELSE line_items
    /\ scope_index' = IF reply THEN update_room_selector(Remove(rooms, row))
                      ELSE scope_index
    /\ UNCHANGED <<pc, arg, ret, rate_card>>

\* the user picks another entry of scope_room_selector
on_room_selection_changed(index) ==
    /\ Handler
    /\ index \in 1..Len(rooms)
    /\ index # scope_index
    /\ scope_index' = index
    /\ UNCHANGED <<pc, arg, ret, rooms, line_items, rate_card>>

\* RateCardView.add_item
add_item(item_data) ==
    /\ Handler
    /\ Len(rate_card) < MaxRateCard
    /\ rate_card' = Append(rate_card, item_data)
    /\ UNCHANGED <<pc, arg, ret, rooms, line_items, scope_index>>

\* ScopeView.add_line_item
add_line_item ==
    /\ Handler
    /\ Len(rooms) # 0
    /\ current_room # <<>>
    /\ Len(line_items) < MaxItems
    /\ LET new_item == LineItem(PyStr(current_room), Absent, PyStr(<<"New Item">>),
                                SFT, PyNum(0), PyNum(0), PyNum(1), PyNum(0),
                                PyNum(0), Absent, Absent)
       IN  \E events \in EventSeqs(new_item), accepted \in BOOLEAN :
              line_items' =
                  IF accepted
                  THEN Append(line_items,
                              with_amount(get_item_data(new_item, events)))
                  ELSE line_items
    /\ UNCHANGED <<pc, arg, ret, rooms, rate_card, scope_index>>

\* ScopeView.add_from_rate_card: the user adds one record of the rate card to
\* the selection, directly or through the options dialog
add_from_rate_card ==
    /\ Handler
    /\ Len(rooms) # 0
    /\ current_room # <<>>
    /\ Len(line_items) < MaxItems
    /\ \E row \in 1..Len(rate_card), with_options \in BOOLEAN, accepted \in BOOLEAN :
          \E item_data \in {create_item_from_rate_card(found_item(rate_card, row))} :
              \E events \in IF with_options THEN EventSeqs(item_data) ELSE {<<>>} :
                 LET selected_item ==
                         IF with_options
                         THEN with_amount(get_item_data(item_data, events))
                         ELSE item_data
                     new_item == [selected_item EXCEPT !.room = PyStr(current_room)]
                 IN  line_items' =
                         IF accepted THEN Append(line_items, with_amount(new_item))
                         ELSE line_items
    /\ UNCHANGED <<pc, arg, ret, rooms, rate_card, scope_index>>

\* the texts typed into a cell of the table
CellTexts == {<<>>, <<"2">>, <<"RFT">>}

\* ScopeView.on_line_item_cell_changed
on_line_item_cell_changed(row, column, text) ==
    /\ Handler
    /\ current_room # <<>>
    /\ row \in 1..Len(room_items(line_items, current_room, 1))
    /\ LET item_index == item_index_of(line_items, current_room, row)
           item == line_items[item_index]
           number == IF text # <<>> THEN float(text) ELSE Ok(0)
           edited ==
               CASE column = 0 -> [item EXCEPT !.item = PyStr(text)]
                 [] column = 1 -> [item EXCEPT !.uom = PyStr(text)]
                 [] column = 2 -> [item EXCEPT !.length = PyNum(number.v)]
                 [] column = 3 -> [item EXCEPT !.height = PyNum(number.v)]
                 [] column = 4 -> [item EXCEPT !.quantity = PyNum(number.v)]
                 [] column = 6 -> [item EXCEPT !.rate = PyNum(number.v)]
                 [] OTHER -> item
       IN  line_items' =
               IF column \in {2, 3, 4, 6} /\ ~number.ok
               THEN line_items
               ELSE [line_items EXCEPT ![item_index] = with_amount(edited)]
    /\ UNCHANGED <<pc, arg, ret, rooms, rate_card, scope_index>>

\* ScopeView.duplicate_line_item: a deep copy of the row, renamed
duplicate_line_item(selected_row) ==
    /\ Handler
    /\ current_room # <<>>
    /\ Len(line_items) < MaxItems
    /\ selected_row \in 1..Len(room_items(line_items, current_room, 1))
    /\ LET item == line_items[room_items(line_items, current_room, 1)[selected_row]]
       IN  line_items' =
               Append(line_items,
                      [item EXCEPT !.item = PyStr(item.item.s \o <<" (Copy)">>)])
    /\ UNCHANGED <<pc, arg, ret, rooms, rate_card, scope_index>>

\* ScopeView.delete_line_item
delete_line_item(selected_row, reply) ==
    /\ Handler
    /\ current_room # <<>>
    /\ selected_row \in 1..Len(room_items(line_items, current_room, 1))
    /\ line_items' =
           IF reply
           THEN Remove(line_items, index_by_name(line_items, current_room, selected_row))
           ELSE line_items
    /\ UNCHANGED <<pc, arg, ret, rooms, rate_card, scope_index>>

\* ScopeView.edit_item_with_options; accepted is how exec_() ends.
\* item_to_edit is a shallow copy: the material and add_ons dicts the dialog
\* writes to are those of the stored item, whether the dialog is accepted or
\* not.
edit_item_with_options(row, accepted) ==
    /\ Handler
    /\ current_room # <<>>
    /\ row \in 1..Len(room_items(line_items, current_room, 1))
    /\ LET item_index == item_index_of(line_items, current_room, row)
       IN  \E events \in EventSeqs(line_items[item_index]) :
              \E updated_item \in {get_item_data(line_items[item_index], events)} :
                  line_items' =
                      [line_items EXCEPT ![item_index] =
                          IF accepted THEN with_amount(updated_item)
                          ELSE [@ EXCEPT !.material = updated_item.material,
                                         !.add_ons = updated_item.add_ons]]
    /\ UNCHANGED <<pc, arg, ret, rooms, rate_card, scope_index>>

Next ==
    \/ \E room_type \in RoomTypes : add_room(room_type)
    \/ \E row \in 1..MaxRooms, reply \in BOOLEAN : delete_room(row, reply)
    \/ \E index \in 1..MaxRooms : on_room_selection_changed(index)
    \/ \E item_data \in TypedItems : add_item(item_data)
    \/ add_line_item
    \/ add_from_rate_card
    \/ \E row \in 1..MaxItems, column \in 0..7, text \in CellTexts :
          on_line_item_cell_changed(row, column, text)
    \/ \E row \in 1..MaxItems : duplicate_line_item(row)
    \/ \E row \in 1..MaxItems, reply \in BOOLEAN : delete_line_item(row, reply)
    \/ \E row \in 1..MaxItems, accepted \in BOOLEAN :
          edit_item_with_options(row, accepted)

Spec == InitProject /\ [][Next]_vars

\* C2: every stored line item's amount is what calculate_item_amount returns
\* for that item, after any operation of the scope view.
C2_AmountIsCalculated ==
    pc = "project"
    => \A i \in 1..Len(line_items) :
          /\ calculate_item_amount(line_items[i]).ok
          /\ line_items[i].amount = PyNum(calculate_item_amount(line_items[i]).v)

\* C11: for a record whose material_options string is not empty,
\* get_material_options_from_rate_card returns the first listed option,
\* trimmed, as base_material, and price_additions[base_material] is 0, also
\* when a name is listed more than once and whatever material_prices holds.
C11_BaseSurchargeZero ==
    (pc = "material" /\ Truthy(arg.material_options))
    => /\ ret.base_material = PyStr(strip(split(arg.material_options.s, ",")[1]))
       /\ ret.base_material.s \in DOMAIN ret.price_additions
       /\ ret.price_additions[ret.base_material.s] = 0

\* the text of s between its first and its last chunk that is not a blank
Trimmed(s) ==
    LET inked == {i \in 1..Len(s) : s[i] # " "}
    IN  IF inked = {} THEN <<>>
        ELSE SubSeq(s, CHOOSE i \in inked : \A j \in inked : i <= j,
                       CHOOSE i \in inked : \A j \in inked : j <= i)

\* the k-th of the positions of the commas of s, the positions before and
\* after s counted as commas
Comma(s, k) ==
    LET at == {0, Len(s) + 1} \cup {i \in 1..Len(s) : s[i] = ","}
    IN  CHOOSE c \in at : Cardinality({d \in at : d < c}) = k - 1

\* the names a comma-separated string lists: the texts between the commas,
\* trimmed, in the order given
Listed(s) ==
    [k \in 1..(Cardinality({i \in 1..Len(s) : s[i] = ","}) + 1) |->
        Trimmed(SubSeq(s, Comma(s, k) + 1, Comma(s, k + 1) - 1))]

\* the default price table of the specification, keyed by lower-case name
DefaultPriceTable ==
    (<<"laminate">> :> 0) @@ (<<"veneer">> :> 500) @@ (<<"pu">> :> 800)
    @@ (<<"acrylic">> :> 600) @@ (<<"premium">> :> 400) @@ (<<"texture">> :> 200)

ExpPrice(option, prices) ==
    IF option \in DOMAIN prices THEN prices[option]
    ELSE IF lower(option) \in DOMAIN DefaultPriceTable
    THEN DefaultPriceTable[lower(option)]
    ELSE 300

\* C12: every option listed after the first has the price parsed for it from
\* material_prices if it is a key there, and otherwise the default of its
\* name compared without regard to letter case (any other name 300); every
\* listed option is a key of price_additions.
C12_OtherOptionPrices ==
    (pc = "material" /\ Truthy(arg.material_options))
    => LET names == Listed(arg.material_options.s)
           prices == parse_price_mapping(arg.material_prices)
       IN  /\ \A i \in 1..Len(names) : names[i] \in DOMAIN ret.price_additions
           /\ \A i \in 2..Len(names) :
                 ret.price_additions[names[i]] = ExpPrice(names[i], prices)

\* "Laminate, Veneer, PU" without material_prices
C12_Witness ==
    /\ pc = "material"
    /\ arg.material_options = PyStr(LaminateVeneerPU)
    /\ arg.material_prices = Absent
    /\ ret.price_additions =
          (<<"Laminate">> :> 0) @@ (<<"Veneer">> :> 500) @@ (<<"PU">> :> 800)

\* C13: a record whose material_options is absent or empty gives no options,
\* no base material and no prices; any other gives exactly the names between
\* the commas, trimmed, in the order given.
C13_OptionsAsListed ==
    pc = "material"
    => IF arg.material_options \in {Absent, PyNone, PyStr(<<>>)}
       THEN ret = [options |-> <<>>, base_material |-> PyNone,
                   price_additions |-> NoPrices]
       ELSE ret.options = Listed(arg.material_options.s)

\* " Oak , Veneer" lists Oak and Veneer
C13_Witness ==
    /\ pc = "material"
    /\ arg.material_options = PyStr(<<"Oak", ",", " ", "Veneer">>)
    /\ ret.options = <<(<<"Oak">>), (<<"Veneer">>)>>

\* the pieces of a price string between its commas, as written
Segments(s) ==
    [k \in 1..(Cardinality({i \in 1..Len(s) : s[i] = ","}) + 1) |->
        SubSeq(s, Comma(s, k) + 1, Comma(s, k + 1) - 1)]

\* the position of the first colon of a segment that has one
FirstColon(seg) ==
    CHOOSE i \in 1..Len(seg) : seg[i] = ":" /\ \A j \in 1..(i - 1) : seg[j] # ":"

PairName(seg) == Trimmed(SubSeq(seg, 1, FirstColon(seg) - 1))
PairNumber(seg) == Trimmed(SubSeq(seg, FirstColon(seg) + 1, Len(seg)))

\* a segment name:number, split on its first colon
WellFormedPair(seg) ==
    /\ \E i \in 1..Len(seg) : seg[i] = ":"
    /\ PairNumber(seg) # <<>>
    /\ \A i \in 1..Len(PairNumber(seg)) : IsDigit(PairNumber(seg)[i])

\* C14: parse_price_mapping returns a price for exactly the trimmed names of
\* the well-formed name:number segments of the string, each segment split on
\* its first colon; a name has the number of its last well-formed segment;
\* every other segment is dropped, and an empty or absent string gives the
\* empty mapping.
C14_WellFormedPairsKept ==
    pc = "prices"
    => LET s == IF arg.material_prices.k = "str" THEN arg.material_prices.s ELSE <<>>
           segs == Segments(s)
           good == {k \in 1..Len(segs) : WellFormedPair(segs[k])}
       IN  /\ DOMAIN ret = {PairName(segs[k]) : k \in good}
           /\ \A k \in good :
                 (\A j \in good : j > k => PairName(segs[j]) # PairName(segs[k]))
                 => ret[PairName(segs[k])] = DigitsValue(PairNumber(segs[k]))

\* "bad,Lights:250" gives {Lights: 250}
C14_Witness ==
    /\ pc = "prices"
    /\ arg.material_prices = PyStr(BadThenLights)
    /\ ret = (<<"Lights">> :> 250)

(***************************************************************************)
(* SpecAddOn: the add-ons extracted from one rate-card record.             *)
(***************************************************************************)
AddOnChunks == {"Lights", "LIGHTS", "Profile Door", "Handles", "None", ",", " "}
MaxAddOnLen == 3    \* chunks in a rate card's add_ons string

\* the word none in three letter cases, a lower-case name, and the default
\* catalogue's "Lights, Profile Door"
LightsProfileDoor == <<"Lights", ",", " ", "Profile Door">>
AddOnStrings ==
    {Absent, PyNone} \cup {PyStr(s) : s \in StrSet(AddOnChunks, MaxAddOnLen)}
    \cup {PyStr(<<"none">>), PyStr(<<"NONE">>), PyStr(<<"profile door">>),
          PyStr(LightsProfileDoor)}

AddOnPriceStrings ==
    {Absent, PyNone, PyStr(<<>>), PyStr(<<"Lights", ":", "2">>),
     PyStr(<<"Handles", ":", "2", ",", "Profile Door", ":", "3">>),
     PyStr(<<"Lights", ":", "x">>), PyStr(<<"None", ":", "2">>),
     PyStr(<<"lights", ":", "2">>), PyStr(LightsAndDoor)}

InitAddOn ==
    /\ pc = "rate_card"
    /\ \E a \in AddOnStrings, p \in AddOnPriceStrings :
          arg = [add_ons |-> a, addon_prices |-> p]
    /\ ret = PyNone
    /\ NoProject

ExtractAddOns ==
    /\ pc = "rate_card"
    /\ ret' = get_add_ons_from_rate_card(arg)
    /\ pc' = "add_ons"
    /\ UNCHANGED <<arg, project>>

NextAddOn == ExtractAddOns

SpecAddOn == InitAddOn /\ [][NextAddOn]_vars

\* add_ons is missing, None, empty, or the word none
NoAddOnsAsked(add_ons) ==
    add_ons \in {Absent, PyNone, PyStr(<<>>), PyStr(<<"none">>), PyStr(<<"None">>),
                 PyStr(<<"NONE">>)}

\* C15: get_add_ons_from_rate_card returns the empty mapping when add_ons is
\* absent, empty or the word none in any letter case, whatever addon_prices
\* holds.
C15_NoneMeansNoAddOns ==
    (pc = "add_ons" /\ NoAddOnsAsked(arg.add_ons)) => ret = NoAddOns

\* "NONE" with a price for the name None
C15_Witness ==
    /\ pc = "add_ons"
    /\ arg.add_ons = PyStr(<<"NONE">>)
    /\ arg.addon_prices = PyStr(<<"None", ":", "2">>)
    /\ ret = NoAddOns

\* the rate the specification gives an add-on name
ExpAddOnRate(name, prices) ==
    IF name \in DOMAIN prices THEN prices[name]
    ELSE IF lower(name) = <<"profile door">> THEN 150
    ELSE IF lower(name) = <<"lights">> THEN 250
    ELSE 100

\* C16: the result has an entry for every trimmed name of the add_ons string
\* and no other key; the entry is not selected and its rate_per_unit is the
\* name's value in addon_prices if it has one, otherwise 150 for profile door,
\* 250 for lights (in any letter case) and 100 for any other name.
C16_AddOnEntries ==
    (pc = "add_ons" /\ ~NoAddOnsAsked(arg.add_ons))
    => LET names == Listed(arg.add_ons.s)
           prices == parse_price_mapping(arg.addon_prices)
       IN  /\ DOMAIN ret = {names[i] : i \in 1..Len(names)}
           /\ \A name \in DOMAIN ret :
                 ret[name] = AddOn(PyBool(FALSE), PyNum(ExpAddOnRate(name, prices)))

\* "Lights, Profile Door" with a price for Lights only
C16_Witness ==
    /\ pc = "add_ons"
    /\ arg.add_ons = PyStr(LightsProfileDoor)
    /\ arg.addon_prices = PyStr(<<"Lights", ":", "2">>)
    /\ ret = (<<"Lights">> :> AddOn(PyBool(FALSE), PyNum(2)))
             @@ (<<"Profile Door">> :> AddOn(PyBool(FALSE), PyNum(150)))

(***************************************************************************)
(* Totals: calculate_room_totals, calculate_subtotal, calculate_gst,       *)
(* calculate_discount, calculate_grand_total, get_item_breakdown_by_type   *)
(* and CalculationController.calculate_project_statistics.  A dict is the  *)
(* sequence of its <<key, value>> pairs in insertion order.  Numbers are   *)
(* exact: a quotient is a fraction in lowest terms.                        *)
(***************************************************************************)
MaxTotalItems == 3    \* line items in the list the totals are computed of

Abs(x) == IF x < 0 THEN 0 - x ELSE x

RECURSIVE GCD(_, _)
GCD(a, b) == IF b = 0 THEN a ELSE GCD(b, a % b)

\* the number n / d, d > 0, in lowest terms
Frac(n, d) ==
    LET g == GCD(Abs(n), d) IN [n |-> n \div g, d |-> d \div g]

Whole(n) == Frac(n, 1)
QAdd(x, y) == Frac(x.n * y.d + y.n * x.d, x.d * y.d)
QSub(x, y) == Frac(x.n * y.d - y.n * x.d, x.d * y.d)
QMul(x, y) == Frac(x.n * y.n, x.d * y.d)
\* x / y for y > 0
QDiv(x, y) == Frac(x.n * y.d, x.d * y.n)

\* key in d
HasKey(d, key) == \E i \in 1..Len(d) : d[i][1] = key

\* d[key]
Lookup(d, key) == d[CHOOSE i \in 1..Len(d) : d[i][1] = key][2]

\* d[key] = value: a new key goes to the end, a known key keeps its place
Store(d, key, value) ==
    IF HasKey(d, key)
    THEN [i \in 1..Len(d) |-> IF d[i][1] = key THEN <<key, value>> ELSE d[i]]
    ELSE Append(d, <<key, value>>)

\* the dict as a mapping, the order of insertion forgotten: two dicts are
\* equal in Python when these are equal
Mapping(d) == [key \in {d[i][1] : i \in 1..Len(d)} |-> Lookup(d, key)]

\* d.values()
Values(d) == [i \in 1..Len(d) |-> d[i][2]]

\* calculate_room_totals overwriting the total of a room by each amount
RECURSIVE room_totals_last(_, _)
room_totals_last(items, room_totals) ==
    IF items = <<>> THEN room_totals
    ELSE room_totals_last(Tail(items),
                          Store(room_totals, Head(items).room,
                                Head(items).amount.n))

\* lines 103-111: the loop over the items
RECURSIVE room_totals_loop(_, _)
room_totals_loop(items, room_totals) ==
    IF items = <<>> THEN room_totals
    ELSE LET room == Head(items).room
             amount == Head(items).amount.n
             started == IF HasKey(room_totals, room) THEN room_totals
                        ELSE Store(room_totals, room, 0)
         IN  room_totals_loop(Tail(items),
                              Store(started, room, Lookup(started, room) + amount))

\* Calculator.calculate_room_totals(line_items)
calculate_room_totals(items) == room_totals_loop(items, <<>>)

\* Calculator.calculate_subtotal(room_totals)
calculate_subtotal(room_totals) == SumSeq(Values(room_totals))

\* Calculator.calculate_gst(subtotal, gst_percent)
calculate_gst(subtotal, gst_percent) ==
    QMul(Whole(subtotal), QDiv(Whole(gst_percent), Whole(100)))

\* Calculator.calculate_discount(subtotal, discount_percent)
calculate_discount(subtotal, discount_percent) ==
    QMul(Whole(subtotal), QDiv(Whole(discount_percent), Whole(100)))

\* a grand total that is never below zero
grand_total_floored(subtotal, gst_amount, discount_amount) ==
    IF QSub(QAdd(Whole(subtotal), gst_amount), discount_amount).n < 0 THEN Whole(0)
    ELSE QSub(QAdd(Whole(subtotal), gst_amount), discount_amount)

\* Calculator.calculate_grand_total(subtotal, gst_amount, discount_amount)
calculate_grand_total(subtotal, gst_amount, discount_amount) ==
    QSub(QAdd(Whole(subtotal), gst_amount), discount_amount)

\* get_item_breakdown_by_type counting the items of each unit
RECURSIVE breakdown_count(_, _)
breakdown_count(items, breakdown) ==
    IF items = <<>> THEN breakdown
    ELSE LET uom == IF Head(items).uom.k = "absent" THEN PyStr(<<"Unknown">>)
                    ELSE Head(items).uom
             started == IF HasKey(breakdown, uom) THEN breakdown
                        ELSE Store(breakdown, uom, 0)
         IN  breakdown_count(Tail(items),
                             Store(started, uom, Lookup(started, uom) + 1))

\* lines 138-143: the loop over the items
RECURSIVE breakdown_loop(_, _)
breakdown_loop(items, breakdown) ==
    IF items = <<>> THEN breakdown
    ELSE LET uom == IF Head(items).uom.k = "absent" THEN PyStr(<<"Unknown">>)
                    ELSE Head(items).uom
             started == IF HasKey(breakdown, uom) THEN breakdown
                        ELSE Store(breakdown, uom, 0)
         IN  breakdown_loop(Tail(items),
                            Store(started, uom,
                                  Lookup(started, uom) + Head(items).amount.n))

\* Calculator.get_item_breakdown_by_type(line_items)
get_item_breakdown_by_type(items) == breakdown_loop(items, <<>>)

\* settings.get(key, default)
setting(settings, key, default) ==
    IF settings[key].k = "absent" THEN default ELSE settings[key].n

\* CalculationController.calculate_grand_total, with the values it passes
grand_total_of(items, settings) ==
    LET subtotal == calculate_subtotal(calculate_room_totals(items))
        gst_amount == calculate_gst(subtotal, setting(settings, "gst", 18))
        discount_amount ==
            calculate_discount(subtotal, setting(settings, "discount", 0))
    IN  [subtotal |-> subtotal, gst_amount |-> gst_amount,
         discount_amount |-> discount_amount,
         grand_total |-> calculate_grand_total(subtotal, gst_amount, discount_amount)]

\* the position of the last of the greatest keys
last_max(keys) ==
    CHOOSE i \in 1..Len(keys) :
        /\ \A j \in 1..Len(keys) : keys[j] <= keys[i]
        /\ \A j \in (i + 1)..Len(keys) : keys[j] < keys[i]

\* max(sequence, key): the position of the first of the greatest keys
first_max(keys) ==
    CHOOSE i \in 1..Len(keys) :
        /\ \A j \in 1..Len(keys) : keys[j] <= keys[i]
        /\ \A j \in 1..(i - 1) : keys[j] < keys[i]

\* an average taken without looking whether there is anything to average
average_unguarded(total, count) ==
    IF count = 0 THEN Raise ELSE Ok(QDiv(Whole(total), Whole(count)))

\* lines 77-83: an average, 0 when there is nothing to average
average(total, count) ==
    IF count > 0 THEN Ok(QDiv(Whole(total), Whole(count))) ELSE Ok(Whole(0))

\* CalculationController.calculate_project_statistics
calculate_project_statistics(items) ==
    LET room_totals == calculate_room_totals(items)
        total_rooms == Len(room_totals)
        total_items == Len(items)
        avg_room_cost == average(SumSeq(Values(room_totals)), total_rooms)
        amounts == [i \in 1..Len(items) |-> items[i].amount.n]
        avg_item_cost == average(SumSeq(amounts), total_items)
        highest_room == room_totals[first_max(Values(room_totals))]
        highest_item == items[first_max(amounts)]
    IN  IF ~avg_room_cost.ok \/ ~avg_item_cost.ok THEN Raise
        ELSE Ok([total_rooms |-> total_rooms, total_items |-> total_items,
                 avg_room_cost |-> avg_room_cost.v,
                 avg_item_cost |-> avg_item_cost.v,
                 highest_cost_room |->
                     IF room_totals # <<>>
                     THEN [name |-> highest_room[1], amount |-> highest_room[2]]
                     ELSE [name |-> PyStr(<<"None">>), amount |-> 0],
                 highest_cost_item |->
                     IF items # <<>>
                     THEN [name |-> highest_item.item, room |-> highest_item.room,
                           amount |-> highest_item.amount.n]
                     ELSE [name |-> PyStr(<<"None">>), room |-> PyStr(<<"None">>),
                           amount |-> 0]])

(***************************************************************************)
(* SpecTotals: the totals of one list of line items under one settings     *)
(* dict.                                                                   *)
(***************************************************************************)
TotalRooms == {PyStr(<<"Hall">>), PyStr(<<"Kitchen">>)}
TotalAmounts == {0 - 500, 500, 1000, 2000}
TotalUoms == {SFT, RFT, Absent}

\* a line item as the totals read it: room, item, uom (or no uom), amount
TotalItems ==
    {[room |-> room, item |-> PyStr(<<"Panel">>), uom |-> uom, amount |-> PyNum(amount)] :
        room \in TotalRooms, uom \in TotalUoms, amount \in TotalAmounts}

\* Project.settings: the defaults, what the dashboard's spin boxes write
\* (0..100), and what a project file may hold
TotalSettings ==
    {[gst |-> PyNum(18), discount |-> PyNum(0)],
     [gst |-> PyNum(18), discount |-> PyNum(10)],
     [gst |-> PyNum(0), discount |-> PyNum(100)],
     [gst |-> PyNum(7), discount |-> PyNum(150)],
     [gst |-> Absent, discount |-> Absent]}

InitTotals ==
    /\ pc = "totals"
    /\ \E items \in StrSet(TotalItems, MaxTotalItems), settings \in TotalSettings :
          arg = [line_items |-> items, settings |-> settings]
    /\ ret = PyNone
    /\ NoProject

RoomTotals ==
    /\ pc = "totals"
    /\ ret' = calculate_room_totals(arg.line_items)
    /\ pc' = "room_totals"
    /\ UNCHANGED <<arg, project>>

GrandTotal ==
    /\ pc = "totals"
    /\ ret' = grand_total_of(arg.line_items, arg.settings)
    /\ pc' = "grand_total"
    /\ UNCHANGED <<arg, project>>

Breakdown ==
    /\ pc = "totals"
    /\ ret' = get_item_breakdown_by_type(arg.line_items)
    /\ pc' = "breakdown"
    /\ UNCHANGED <<arg, project>>

Statistics ==
    /\ pc = "totals"
    /\ ret' = calculate_project_statistics(arg.line_items)
    /\ pc' = "statistics"
    /\ UNCHANGED <<arg, project>>

NextTotals == RoomTotals \/ GrandTotal \/ Breakdown \/ Statistics

SpecTotals == InitTotals /\ [][NextTotals]_vars

\* the sum of the amounts of the items at the given positions of a list
AmountOf(items, positions) ==
    SumSeq([i \in 1..Len(items) |-> IF i \in positions THEN items[i].amount.n ELSE 0])

\* the sum of the amounts of all items of a list
AmountOfAll(items) == AmountOf(items, 1..Len(items))

\* the orders a list can be put in
Orders(items) ==
    {[i \in 1..Len(items) |-> items[p[i]]] :
        p \in {q \in [1..Len(items) -> 1..Len(items)] :
                 \A i, j \in 1..Len(items) : q[i] = q[j] => i = j}}

\* C17: calculate_room_totals returns a mapping whose keys are exactly the
\* rooms that own an item of the list and whose value for a room is the sum
\* of the amounts of the room's items; every order of the same list gives
\* the same mapping.
C17_RoomTotals ==
    pc = "room_totals"
    => /\ DOMAIN Mapping(ret) = {arg.line_items[i].room : i \in 1..Len(arg.line_items)}
       /\ \A room \in DOMAIN Mapping(ret) :
             Mapping(ret)[room]
                 = AmountOf(arg.line_items,
                            {i \in 1..Len(arg.line_items) : arg.line_items[i].room = room})
       /\ \A other \in Orders(arg.line_items) :
             Mapping(calculate_room_totals(other)) = Mapping(ret)

\* Hall 1000, Hall 500, Kitchen 2000
C17_Witness ==
    /\ pc = "room_totals"
    /\ Len(arg.line_items) = 3
    /\ arg.line_items[1].room = PyStr(<<"Hall">>) /\ arg.line_items[1].amount = PyNum(1000)
    /\ arg.line_items[2].room = PyStr(<<"Hall">>) /\ arg.line_items[2].amount = PyNum(500)
    /\ arg.line_items[3].room = PyStr(<<"Kitchen">>) /\ arg.line_items[3].amount = PyNum(2000)
    /\ Mapping(ret) = (PyStr(<<"Hall">>) :> 1500) @@ (PyStr(<<"Kitchen">>) :> 2000)

\* a percentage of the settings, or the default the controller reads for a
\* missing key
Percent(settings, key, default) ==
    IF settings[key] = Absent THEN default ELSE settings[key].n

\* C18: with S the sum of the amounts of all items, the controller's tax is
\* S x gst / 100, its discount is S x discount / 100, both of the same S, and
\* the grand total is S + tax - discount, also when that is below zero.
C18_GrandTotal ==
    pc = "grand_total"
    => LET S == AmountOfAll(arg.line_items)
           gst == Percent(arg.settings, "gst", 18)
           discount == Percent(arg.settings, "discount", 0)
       IN  /\ ret.subtotal = S
           /\ ret.gst_amount = Frac(S * gst, 100)
           /\ ret.discount_amount = Frac(S * discount, 100)
           /\ ret.grand_total = Frac(100 * S + S * gst - S * discount, 100)

\* S = 3500, gst 18, discount 10: tax 630, discount 350, grand total 3780
C18_Witness ==
    /\ pc = "grand_total"
    /\ arg.settings = [gst |-> PyNum(18), discount |-> PyNum(10)]
    /\ ret = [subtotal |-> 3500, gst_amount |-> Whole(630),
              discount_amount |-> Whole(350), grand_total |-> Whole(3780)]

\* the key get_item_breakdown_by_type files an item under
UomKey(item) == IF item.uom = Absent THEN PyStr(<<"Unknown">>) ELSE item.uom

\* C19: get_item_breakdown_by_type returns a mapping whose keys are exactly
\* the uom values of the list, an item without uom counted under "Unknown",
\* whose value for a key is the sum of the amounts of the items of that uom;
\* the values add up to the sum of all amounts.
C19_BreakdownByUom ==
    pc = "breakdown"
    => /\ DOMAIN Mapping(ret)
             = {UomKey(arg.line_items[i]) : i \in 1..Len(arg.line_items)}
       /\ \A uom \in DOMAIN Mapping(ret) :
             Mapping(ret)[uom]
                 = AmountOf(arg.line_items,
                            {i \in 1..Len(arg.line_items) : UomKey(arg.line_items[i]) = uom})
       /\ SumSeq(Values(ret)) = AmountOfAll(arg.line_items)

\* an SFT item of 1000, an item without uom of 500, an SFT item of 2000
C19_Witness ==
    /\ pc = "breakdown"
    /\ Len(arg.line_items) = 3
    /\ arg.line_items[1].uom = SFT /\ arg.line_items[1].amount = PyNum(1000)
    /\ arg.line_items[2].uom = Absent /\ arg.line_items[2].amount = PyNum(500)
    /\ arg.line_items[3].uom = SFT /\ arg.line_items[3].amount = PyNum(2000)
    /\ Mapping(ret) = (SFT :> 3000) @@ (PyStr(<<"Unknown">>) :> 500)

\* C20: calculate_project_statistics never fails on a division by zero: with
\* no line items it returns 0 rooms, 0 items, both averages 0 and the
\* placeholder highest-cost entries with amount 0; otherwise avg_room_cost is
\* the sum of the room totals over the number of rooms with items, and
\* avg_item_cost the sum of the amounts over the number of items.
C20_Statistics ==
    pc = "statistics"
    => /\ ret.ok
       /\ IF arg.line_items = <<>>
          THEN ret.v = [total_rooms |-> 0, total_items |-> 0,
                        avg_room_cost |-> Whole(0), avg_item_cost |-> Whole(0),
                        highest_cost_room |->
                            [name |-> PyStr(<<"None">>), amount |-> 0],
                        highest_cost_item |->
                            [name |-> PyStr(<<"None">>), room |-> PyStr(<<"None">>),
                             amount |-> 0]]
          ELSE LET S == AmountOfAll(arg.line_items)
                   owners == {arg.line_items[i].room : i \in 1..Len(arg.line_items)}
               IN  /\ ret.v.total_rooms = Cardinality(owners)
                   /\ ret.v.total_items = Len(arg.line_items)
                   /\ ret.v.avg_room_cost = Frac(S, Cardinality(owners))
                   /\ ret.v.avg_item_cost = Frac(S, Len(arg.line_items))

\* the statistics of a project without line items
C20_Witness ==
    /\ pc = "statistics"
    /\ arg.line_items = <<>>
    /\ ret.ok
    /\ ret.v.total_rooms = 0 /\ ret.v.total_items = 0
    /\ ret.v.avg_room_cost = Whole(0) /\ ret.v.avg_item_cost = Whole(0)
    /\ ret.v.highest_cost_room.amount = 0 /\ ret.v.highest_cost_item.amount = 0

\* the position at which a room first occurs in a list of items
FirstOf(items, room) ==
    CHOOSE i \in 1..Len(items) :
        items[i].room = room /\ \A j \in 1..(i - 1) : items[j].room # room

\* the total of a room: the sum of the amounts of its items
TotalOf(items, room) ==
    AmountOf(items, {i \in 1..Len(items) : items[i].room = room})

\* C21: highest_cost_item is the first item of the list whose amount is the
\* greatest, and highest_cost_room is, among the rooms whose total is the
\* greatest, the one that occurs first in the list.
C21_FirstMaximumWins ==
    (pc = "statistics" /\ arg.line_items # <<>>)
    => LET items == arg.line_items
           owners == {items[i].room : i \in 1..Len(items)}
           item == ret.v.highest_cost_item
           room == ret.v.highest_cost_room
       IN  /\ \E i \in 1..Len(items) :
                 /\ item = [name |-> items[i].item, room |-> items[i].room,
                            amount |-> items[i].amount.n]
                 /\ \A j \in 1..Len(items) : items[j].amount.n <= items[i].amount.n
                 /\ \A j \in 1..(i - 1) : items[j].amount.n < items[i].amount.n
           /\ room.name \in owners
           /\ room.amount = TotalOf(items, room.name)
           /\ \A other \in owners \ {room.name} :
                 \/ TotalOf(items, other) < room.amount
                 \/ /\ TotalOf(items, other) = room.amount
                    /\ FirstOf(items, room.name) < FirstOf(items, other)

\* Kitchen 500 before Hall 500: the Kitchen item and the Kitchen win the tie
C21_Witness ==
    /\ pc = "statistics"
    /\ Len(arg.line_items) = 2
    /\ arg.line_items[1].room = PyStr(<<"Kitchen">>)
    /\ arg.line_items[2].room = PyStr(<<"Hall">>)
    /\ arg.line_items[1].amount = PyNum(500) /\ arg.line_items[2].amount = PyNum(500)
    /\ ret.v.highest_cost_item.room = PyStr(<<"Kitchen">>)
    /\ ret.v.highest_cost_room = [name |-> PyStr(<<"Kitchen">>), amount |-> 500]

(***************************************************************************)
(* SpecPure: a run of calls of Calculator's operations on the same input   *)
(* objects.  arg.given holds the inputs as the caller built them, arg.now  *)
(* the same objects as the calls have left them; ret holds, for every      *)
(* operation, the number of calls and the first and the last result.       *)
(***************************************************************************)
MaxCalls == 3    \* calls in one run

Operations ==
    {"calculate_item_amount", "calculate_room_totals", "calculate_subtotal",
     "calculate_gst", "calculate_discount", "calculate_grand_total",
     "get_item_breakdown_by_type", "parse_price_mapping",
     "get_material_options_from_rate_card", "get_add_ons_from_rate_card"}

\* the result of one operation on the input objects as they are
call(operation, inputs) ==
    CASE operation = "calculate_item_amount" -> calculate_item_amount(inputs.item)
      [] operation = "calculate_room_totals" -> calculate_room_totals(inputs.line_items)
      [] operation = "calculate_subtotal" -> calculate_subtotal(inputs.room_totals)
      [] operation = "calculate_gst" -> calculate_gst(inputs.subtotal, inputs.gst)
      [] operation = "calculate_discount" ->
           calculate_discount(inputs.subtotal, inputs.discount)
      [] operation = "calculate_grand_total" ->
           calculate_grand_total(inputs.subtotal, inputs.gst_amount,
                                 inputs.discount_amount)
      [] operation = "get_item_breakdown_by_type" ->
           get_item_breakdown_by_type(inputs.line_items)
      [] operation = "parse_price_mapping" ->
           parse_price_mapping(inputs.rate_card_item.material_prices)
      [] operation = "get_material_options_from_rate_card" ->
           get_material_options_from_rate_card(inputs.rate_card_item)
      [] operation = "get_add_ons_from_rate_card" ->
           get_add_ons_from_rate_card(inputs.rate_card_item)

\* calculate_item_amount keeping its result in the item it was given
inputs_after_storing(operation, inputs) ==
    IF operation = "calculate_item_amount"
    THEN [inputs EXCEPT !.item.rate = PyNum(calculate_item_amount(inputs.item).v)]
    ELSE inputs

\* The input objects after a call.  No statement of Calculator assigns to an
\* entry of a parameter or to an attribute of the class: every operation is
\* a staticmethod that builds its result in local variables and new dicts.
inputs_after(operation, inputs) == inputs

PureItems ==
    ScenarioItems
    \cup {Item(SFT, PyNum(2), PyNum(2), PyNum(1), PyNum(2),
               Material(PyStr(<<"Veneer">>), LaminateVeneer),
               AddOns(<<"Lights">> :> AddOn(PyBool(TRUE), PyNum(2))))}

PureLists ==
    {<<>>} \cup StrSet({t \in TotalItems : t.amount = PyNum(500) /\ t.uom # RFT}, 2)

PureRateCard == TypedItems \cup {DefaultItems[1]}

InitPure ==
    /\ pc = "calculator"
    /\ \E item \in PureItems, items \in PureLists, rate_card_item \in PureRateCard :
          LET inputs ==
                  [item |-> item, line_items |-> items,
                   room_totals |-> calculate_room_totals(items),
                   subtotal |-> calculate_subtotal(calculate_room_totals(items)),
                   gst |-> 18, discount |-> 10,
                   gst_amount |-> Frac(9, 2), discount_amount |-> Whole(7),
                   rate_card_item |-> rate_card_item]
          IN  arg = [given |-> inputs, now |-> inputs]
    /\ ret = [operation \in Operations |->
                 [calls |-> 0, first |-> PyNone, last |-> PyNone]]
    /\ NoProject

Call(operation) ==
    /\ pc = "calculator"
    /\ SumOver([o \in Operations |-> ret[o].calls], Operations) < MaxCalls
    /\ ret' = [ret EXCEPT ![operation] =
                  [calls |-> @.calls + 1,
                   first |-> IF @.calls = 0 THEN call(operation, arg.now) ELSE @.first,
                   last |-> call(operation, arg.now)]]
    /\ arg' = [arg EXCEPT !.now = inputs_after(operation, arg.now)]
    /\ UNCHANGED <<pc, project>>

NextPure == \E operation \in Operations : Call(operation)

SpecPure == InitPure /\ [][NextPure]_vars

RoomNames == {PyStr(rooms[i].name) : i \in 1..Len(rooms)}

\* C23: every stored line item carries the name of a room that is in the
\* project's rooms list now; after a room is deleted no item with its name
\* remains.
C23_ItemsHaveRooms ==
    pc = "project" => \A i \in 1..Len(line_items) : line_items[i].room \in RoomNames

\* "Bedroom 1" has been deleted and "Bedroom 2" holds an item
C23_Witness ==
    /\ pc = "project"
    /\ Len(rooms) = 1 /\ rooms[1].name = <<"Bedroom", " ", "2">>
    /\ Len(line_items) = 1
    /\ line_items[1].room = PyStr(<<"Bedroom", " ", "2">>)

(***************************************************************************)
(* The options dialog on its own: ItemOptionsDialog is opened on an item   *)
(* and the user acts on its widgets, one event at a time.                   *)
(***************************************************************************)
\* the items a view opens the dialog on: the new item of add_line_item and
\* the items made from the records of the rate card
OpenedOn ==
    {LineItem(PyStr(<<"Bedroom", " ", "1">>), Absent, PyStr(<<"New Item">>), SFT,
              PyNum(0), PyNum(0), PyNum(1), PyNum(0), PyNum(0), Absent, Absent)}
    \cup {create_item_from_rate_card(rate_card_item) :
            rate_card_item \in {DefaultItems[1]} \cup TypedItems}

InitDialog ==
    /\ pc = "ItemOptionsDialog"
    /\ arg \in OpenedOn
    /\ ret = PyNone
    /\ NoProject

\* ItemOptionsDialog.__init__: init_ui, populate_data, update_preview
OpenDialog ==
    /\ pc = "ItemOptionsDialog"
    /\ ret' = run(NewDialog(arg), Construction)
    /\ pc' = "exec_"
    /\ UNCHANGED <<arg, project>>

\* one act of the user on a widget of the open dialog
UserEvent ==
    /\ pc = "exec_"
    /\ \E c \in DialogEvents(ret.item_data) : ret' = run(ret, <<c>>)
    /\ UNCHANGED <<pc, arg, project>>

NextDialog == OpenDialog \/ UserEvent

SpecDialog == InitDialog /\ [][NextDialog]_vars

\* C24: in the open dialog, after update_preview, the item get_item_data
\* returns has material.selected equal to the text of the material combo and
\* every add-on's selected flag equal to the state of its checkbox.
C24_ReturnedItemShowsChoices ==
    pc = "exec_" =>
        /\ ret.material_index # 0 =>
               ret.item_data.material.selected = PyStr(currentText(ret))
        /\ \A a \in DOMAIN ret.addon_checkboxes :
               ret.item_data.add_ons.d[a].selected = PyBool(ret.addon_checkboxes[a])

\* C25: an options dialog that is opened on a stored line item and cancelled
\* leaves the stored line items as they were, the nested material.selected
\* and the add-on flags included.
C25_CancelChangesNothing ==
    [][\A row \in 1..MaxItems :
          edit_item_with_options(row, FALSE) => line_items' = line_items]_vars

\* C27: after any sequence of RoomsView.add_room and RoomsView.delete_room,
\* the rooms of the project have pairwise distinct names.
C27_RoomNamesDistinct ==
    pc = "project" =>
        \A i \in 1..Len(rooms), j \in 1..Len(rooms) :
            i # j => rooms[i].name # rooms[j].name

\* C30: a confirmed ScopeView.delete_line_item removes from the project the
\* line item shown at the selected row of the selected room, and nothing
\* else; the other items keep their order.
C30_DeletesSelectedRow ==
    [][\A row \in 1..MaxItems :
          delete_line_item(row, TRUE) =>
              line_items' =
                  Remove(line_items, room_items(line_items, current_room, 1)[row])]_vars

(***************************************************************************)
(* The Project model on its own: its methods are called one at a time, by  *)
(* the views or by any other caller.  rooms and line_items are the lists   *)
(* of the object, arg holds its other attributes, and ret is the record of *)
(* the last call: the method, its arguments, what it returned, and the     *)
(* listeners it invoked, each with the model as the listener was handed it.*)
(***************************************************************************)
MaxProjectOps == 6    \* calls on the Project in one run

\* the callables register_view hands to add_listener, one for each view
Listeners == {"rooms_view", "scope_view"}

\* dict.update
dict_update(d, e) ==
    [k \in DOMAIN d \cup DOMAIN e |-> IF k \in DOMAIN e THEN e[k] ELSE d[k]]

\* __init__ and create_new: the project information and the settings
default_project_info ==
    [name |-> <<>>, client_name |-> <<>>, site_address |-> <<>>,
     contact_info |-> <<>>, project_type |-> <<>>]

default_settings == [gst |-> 18, discount |-> 0]

\* the model, as a listener finds it
Model(new_rooms, new_line_items, new_project_info, new_settings) ==
    [rooms |-> new_rooms, line_items |-> new_line_items,
     project_info |-> new_project_info, settings |-> new_settings]

\* a notification that reaches no listener
notify_nobody(_listeners, model) == <<>>

\* notify_listeners: for listener in self._listeners: listener(self)
notify_listeners(_listeners, model) ==
    [i \in 1..Len(_listeners) |-> [listener |-> _listeners[i], model |-> model]]

\* a range that leaves out the first entry
after_first(index, length) == 0 < index /\ index < length

\* if 0 <= index < len(...)
in_range(index, length) == 0 <= index /\ index < length

\* the indices a caller passes for a list of at most this length
Indices(length) == (0 - 1)..length

\* one more call on the Project
ProjectCall == pc = "Project" /\ ops < MaxProjectOps /\ ops' = ops + 1

\* the record of a call
Called(operation, given, value, notified) ==
    [operation |-> operation, given |-> given, value |-> value,
     notified |-> notified]

\* the end of a method that changed the model: the attributes as assigned,
\* then notify_listeners(), then the return
Mutated(operation, given, value, new_rooms, new_line_items, new_project_info, new_settings) ==
    /\ rooms' = new_rooms
    /\ line_items' = new_line_items
    /\ arg' = [arg EXCEPT !.project_info = new_project_info,
                          !.settings = new_settings]
    /\ ret' = Called(operation, given, value,
                     notify_listeners(arg._listeners,
                                      Model(new_rooms, new_line_items,
                                            new_project_info, new_settings)))

\* the end of a method whose index was out of range: return False
Refused(operation, given) ==
    /\ ret' = Called(operation, given, PyBool(FALSE), <<>>)
    /\ UNCHANGED <<arg, rooms, line_items>>

InitProjectModel ==
    /\ pc = "Project"
    /\ arg = [project_info |-> default_project_info, settings |-> default_settings,
              _listeners |-> <<>>]
    /\ ret = PyNone
    /\ NoProject

Project_add_listener(listener) ==
    /\ ProjectCall
    /\ arg' = [arg EXCEPT !._listeners =
                  IF \E i \in 1..Len(@) : @[i] = listener THEN @
                  ELSE Append(@, listener)]
    /\ ret' = Called("add_listener", [listener |-> listener], PyNone, <<>>)
    /\ UNCHANGED <<pc, rooms, line_items, rate_card, scope_index>>

\* list.remove takes out the first occurrence
Project_remove_listener(listener) ==
    /\ ProjectCall
    /\ arg' = [arg EXCEPT !._listeners =
                  IF \E i \in 1..Len(@) : @[i] = listener
                  THEN Remove(@, CHOOSE i \in 1..Len(@) :
                                    @[i] = listener
                                    /\ \A j \in 1..(i - 1) : @[j] # listener)
                  ELSE @]
    /\ ret' = Called("remove_listener", [listener |-> listener], PyNone, <<>>)
    /\ UNCHANGED <<pc, rooms, line_items, rate_card, scope_index>>

\* ProjectView.save_project_info passes the texts of its form
Project_set_project_info(info) ==
    /\ ProjectCall
    /\ Mutated("set_project_info", [info |-> info], PyNone, rooms, line_items,
               dict_update(arg.project_info, info), arg.settings)
    /\ UNCHANGED <<pc, rate_card, scope_index>>

\* RoomsView.add_room, lines 75-88: the room of a type, named after the
\* number of rooms of the type
room_data(room_type) ==
    LET count == Cardinality({i \in 1..Len(rooms) : rooms[i].type = room_type})
    IN  [type |-> room_type, name |-> <<room_type, " ", str(count + 1)>>]

\* RoomsView.add_room passes the room it has made; the index of the new room
\* is returned
Project_add_room(room_type) ==
    /\ ProjectCall
    /\ Len(rooms) < MaxRooms
    /\ Mutated("add_room", [room |-> room_data(room_type)], PyNum(Len(rooms)),
               Append(rooms, room_data(room_type)), line_items, arg.project_info,
               arg.settings)
    /\ UNCHANGED <<pc, rate_card, scope_index>>

\* the room at the index is replaced by a room of another type
Project_update_room(index, room_type) ==
    /\ ProjectCall
    /\ IF in_range(index, Len(rooms))
       THEN Mutated("update_room", [index |-> index, room |-> room_data(room_type)],
                    PyBool(TRUE),
                    [rooms EXCEPT ![index + 1] = room_data(room_type)],
                    line_items, arg.project_info, arg.settings)
       ELSE Refused("update_room", [index |-> index, room |-> room_data(room_type)])
    /\ UNCHANGED <<pc, rate_card, scope_index>>

Project_delete_room(index) ==
    /\ ProjectCall
    /\ IF in_range(index, Len(rooms))
       THEN Mutated("delete_room", [index |-> index], PyBool(TRUE),
                    Remove(rooms, index + 1),
                    without_room(line_items, rooms[index + 1].name),
                    arg.project_info, arg.settings)
       ELSE Refused("delete_room", [index |-> index])
    /\ UNCHANGED <<pc, rate_card, scope_index>>

\* ScopeView.add_line_item passes a new item of one of the rooms; the index
\* of the new item is returned
Project_add_line_item(room) ==
    /\ ProjectCall
    /\ Len(line_items) < MaxItems
    /\ room \in 1..Len(rooms)
    /\ LET item == LineItem(PyStr(rooms[room].name), Absent, PyStr(<<"New Item">>),
                            SFT, PyNum(0), PyNum(0), PyNum(1), PyNum(0), PyNum(0),
                            Absent, Absent)
       IN  Mutated("add_line_item", [item |-> item], PyNum(Len(line_items)),
                   rooms, Append(line_items, item), arg.project_info, arg.settings)
    /\ UNCHANGED <<pc, rate_card, scope_index>>

\* the item is given another quantity
Project_update_line_item(index, quantity) ==
    /\ ProjectCall
    /\ IF in_range(index, Len(line_items))
       THEN Mutated("update_line_item", [index |-> index], PyBool(TRUE), rooms,
                    [line_items EXCEPT ![index + 1] =
                        [@ EXCEPT !.quantity = PyNum(quantity)]],
                    arg.project_info, arg.settings)
       ELSE Refused("update_line_item", [index |-> index])
    /\ UNCHANGED <<pc, rate_card, scope_index>>

Project_delete_line_item(index) ==
    /\ ProjectCall
    /\ IF in_range(index, Len(line_items))
       THEN Mutated("delete_line_item", [index |-> index], PyBool(TRUE), rooms,
                    Remove(line_items, index + 1), arg.project_info, arg.settings)
       ELSE Refused("delete_line_item", [index |-> index])
    /\ UNCHANGED <<pc, rate_card, scope_index>>

\* DashboardView.update_settings passes the values of its two spin boxes
Project_update_settings(settings) ==
    /\ ProjectCall
    /\ Mutated("update_settings", [settings |-> settings], PyNone, rooms,
               line_items, arg.project_info, dict_update(arg.settings, settings))
    /\ UNCHANGED <<pc, rate_card, scope_index>>

Project_create_new ==
    /\ ProjectCall
    /\ Mutated("create_new", <<>>, PyNone, <<>>, <<>>, default_project_info,
               default_settings)
    /\ UNCHANGED <<pc, rate_card, scope_index>>

NextProject ==
    \/ \E listener \in Listeners : Project_add_listener(listener)
    \/ \E listener \in Listeners : Project_remove_listener(listener)
    \/ Project_set_project_info([name |-> <<"Villa">>])
    \/ \E room_type \in RoomTypes : Project_add_room(room_type)
    \/ \E index \in Indices(MaxRooms) : Project_update_room(index, "Kitchen")
    \/ \E index \in Indices(MaxRooms) : Project_delete_room(index)
    \/ \E room \in 1..MaxRooms : Project_add_line_item(room)
    \/ \E index \in Indices(MaxItems) : Project_update_line_item(index, MaxNum)
    \/ \E index \in Indices(MaxItems) : Project_delete_line_item(index)
    \/ Project_update_settings([gst |-> 5, discount |-> 10])
    \/ Project_create_new

SpecProject == InitProjectModel /\ [][NextProject]_vars

\* C26: a Project.delete_room(index) with a valid index removes the room at
\* the index and the line items of that room; the line items of every other
\* room of the project are still stored afterwards, in their order.
C26_OtherRoomsKeepItems ==
    [][(ret'.operation = "delete_room" /\ ret'.value = PyBool(TRUE)) =>
          LET position == ret'.given.index + 1
              others == {PyStr(rooms[j].name) : j \in 1..Len(rooms) \ {position}}
              Kept(item) == item.room # PyStr(rooms[position].name)
                            \/ item.room \in others
          IN  /\ rooms' = Remove(rooms, position)
              /\ line_items' = SelectSeq(line_items, Kept)]_vars

\* the methods of Project that change the model
Mutators ==
    {"set_project_info", "add_room", "update_room", "delete_room", "add_line_item",
     "update_line_item", "delete_line_item", "update_settings", "create_new"}

\* the elements of a list
Elements(seq) == {seq[i] : i \in 1..Len(seq)}

\* C28: a successful mutating method of Project invokes every registered
\* listener exactly once, in the order of registration, with the model as it
\* is after the change; add_listener registers a listener at most once, at
\* the end of the list; remove_listener takes a listener off the list, so
\* that it is not invoked again; no other method changes the list.
C28_ListenersNotified ==
    [][/\ (ret'.operation \in Mutators /\ ret'.value # PyBool(FALSE)) =>
              /\ Len(ret'.notified) = Len(arg._listeners)
              /\ \A i \in 1..Len(arg._listeners) :
                    /\ ret'.notified[i].listener = arg._listeners[i]
                    /\ ret'.notified[i].model.rooms = rooms'
                    /\ ret'.notified[i].model.line_items = line_items'
                    /\ ret'.notified[i].model.project_info = arg'.project_info
                    /\ ret'.notified[i].model.settings = arg'.settings
       /\ \A i \in 1..Len(arg'._listeners), j \in 1..Len(arg'._listeners) :
              i # j => arg'._listeners[i] # arg'._listeners[j]
       /\ ret'.operation = "add_listener" =>
              /\ ret'.notified = <<>>
              /\ arg'._listeners =
                     IF ret'.given.listener \in Elements(arg._listeners)
                     THEN arg._listeners
                     ELSE Append(arg._listeners, ret'.given.listener)
       /\ ret'.operation = "remove_listener" =>
              /\ ret'.notified = <<>>
              /\ ret'.given.listener \notin Elements(arg'._listeners)
              /\ LET Other(listener) == listener # ret'.given.listener
                 IN  arg'._listeners = SelectSeq(arg._listeners, Other)
       /\ ret'.operation \notin {"add_listener", "remove_listener"} =>
              arg'._listeners = arg._listeners]_vars

\* two listeners registered, the scope view first; an item is added and each
\* listener is handed the model with the item in it
C28_Witness ==
    /\ pc = "Project"
    /\ ret # PyNone
    /\ ret.operation = "add_line_item"
    /\ arg._listeners = <<"scope_view", "rooms_view">>
    /\ Len(line_items) = 1
    /\ ret.notified = <<[listener |-> "scope_view",
                         model |-> Model(rooms, line_items, arg.project_info,
                                         arg.settings)],
                        [listener |-> "rooms_view",
                         model |-> Model(rooms, line_items, arg.project_info,
                                         arg.settings)]>>

\* C29: update_room, delete_room, update_line_item and delete_line_item with
\* an index outside 0..len-1, negative ones included, return False, change
\* nothing and invoke no listener; with an index inside the range they
\* return True and change only the entry at the index and, for delete_room,
\* the line items of that room.
C29_IndexChecked ==
    [][ret'.operation \in {"update_room", "delete_room", "update_line_item",
                           "delete_line_item"} =>
          LET index == ret'.given.index
              position == index + 1
              of_rooms == ret'.operation \in {"update_room", "delete_room"}
              length == IF of_rooms THEN Len(rooms) ELSE Len(line_items)
              Elsewhere(item) == item.room # PyStr(rooms[position].name)
          IN  IF index < 0 \/ index > length - 1
              THEN /\ ret'.value = PyBool(FALSE)
                   /\ ret'.notified = <<>>
                   /\ rooms' = rooms
                   /\ line_items' = line_items
                   /\ arg' = arg
              ELSE /\ ret'.value = PyBool(TRUE)
                   /\ arg'.settings = arg.settings
                   /\ arg'.project_info = arg.project_info
                   /\ CASE ret'.operation = "update_room" ->
                             /\ Len(rooms') = Len(rooms)
                             /\ \A j \in 1..Len(rooms) \ {position} :
                                   rooms'[j] = rooms[j]
                             /\ line_items' = line_items
                        [] ret'.operation = "delete_room" ->
                             /\ rooms' = Remove(rooms, position)
                             /\ SelectSeq(line_items', Elsewhere)
                                    = SelectSeq(line_items, Elsewhere)
                        [] ret'.operation = "update_line_item" ->
                             /\ Len(line_items') = Len(line_items)
                             /\ \A j \in 1..Len(line_items) \ {position} :
                                   line_items'[j] = line_items[j]
                             /\ rooms' = rooms
                        [] ret'.operation = "delete_line_item" ->
                             /\ line_items' = Remove(line_items, position)
                             /\ rooms' = rooms]_vars

\* delete_room(-1) on a project with a room, an item and a listener: False
\* is returned, the room and the item are there, nobody was notified
C29_Witness ==
    /\ pc = "Project"
    /\ ret # PyNone
    /\ ret.operation = "delete_room"
    /\ ret.given.index = 0 - 1
    /\ ret.value = PyBool(FALSE)
    /\ ret.notified = <<>>
    /\ Len(rooms) = 1
    /\ Len(line_items) = 1
    /\ Len(arg._listeners) = 1

====
